---- MODULE Spec2Model ----
(***************************************************************************)
(* A model of the attachment pipeline of hangouts-migrate: the attachment  *)
(* Mapper (key -> path index over a directory of content-addressed files), *)
(* the temp-file-then-rename Writer, the semaphore-bounded ImageDownloader *)
(* and the ordered BulkImportWriter.                                        *)
(*                                                                         *)
(* Strings that the code takes apart (paths, file names, media types) are  *)
(* sequences of tokens, so that prefixes, extensions and directory parts   *)
(* are computed the way the code computes them:                            *)
(*   "att/6ab9...dd0.jpg"  is  <<"att", "6ab9...dd0", ".", "jpg">>          *)
(*   "image/jpeg"          is  <<"image/", "jpeg">>                        *)
(*   ""                    is  <<>>                                        *)
(***************************************************************************)
EXTENDS Naturals, Sequences, FiniteSets, Bags, TLC

----------------------------------------------------------------------------
(* Bounds of the model. *)

\* How many ImageDownloader.Add calls a run makes.
MaxAdds == 3
\* ImageDownloader.Concurrency, the capacity of the semaphore channel.
Concurrency == 2
\* Length, in blocks, of a response body.
BodyLen == 2
\* How many BulkImportWriter.Add calls a run makes.
MaxRecords == 4
\* How many requests the failing server answers with a transient outcome.
MaxRetries == 2
\* How many users AddUserEntries is given.
MaxUsers == 2
\* How many chat events the exported conversation has.
MaxEvents == 3
\* How many mapped attachments a chat event has.
MaxAtts == 1

\* The most attachments the exporter means to put on one post.
MaxAttachmentsPerPost == 5

----------------------------------------------------------------------------
(* Inputs. *)

Keys == {"k1", "k2"}
\* The keys of Keys and one more, for a run over three items.
AllKeys == Keys \cup {"k3"}

\* The directory the Mapper of a run is configured with.
BaseDir == "att"
\* A directory whose name is no well-formed glob pattern (an unclosed "["):
\* filepath.Glob of a pattern under it fails with ErrBadPattern.
BadDir == "a[t"

\* Response media types, as getMediaType returns them.
Jpeg == <<"image/", "jpeg">>
Mp4 == <<"video/", "mp4">>
Html == <<"text/", "html">>
NoType == <<>>

\* A byte that is no part of a valid UTF-8 sequence, and U+FFFD, the rune
\* that stands for one.
InvalidByte == "0xFF"
ReplacementRune == "U+FFFD"
\* A Content-Type that mime.ParseMediaType rejects, which getMediaType then
\* returns as it came: "image/" followed by a byte that is no token character.
RawType == <<"image/", InvalidByte>>

\* The body the server holds for a key, block by block.
Body(key) == [i \in 1..BodyLen |-> <<key, i>>]

\* What a request to a URL is answered with: a transport error, "transient"
\* (a connection that fails) or "fatal" (one the default policy gives up on:
\* too many redirects, an unsupported scheme, a certificate that does not
\* verify), or a status code with a media type. The URL "ok" serves the
\* content; "busy" answers 429 while busy > 0 and serves the content after
\* that; "flaky" fails while busy > 0 with a connection error, a 503 or a
\* 429, and answers 404 after that; any other URL serves nothing usable.
Serve(u, busy) ==
  IF u = "ok"
  THEN {[err |-> "none", status |-> 200, mt |-> Jpeg]}
  ELSE IF u = "busy"
  THEN IF busy > 0
       THEN {[err |-> "none", status |-> 429, mt |-> NoType]}
       ELSE {[err |-> "none", status |-> 200, mt |-> Jpeg]}
  ELSE IF u = "flaky"
  THEN IF busy > 0
       THEN {[err |-> "transient", status |-> 0, mt |-> NoType],
             [err |-> "none", status |-> 503, mt |-> NoType],
             [err |-> "none", status |-> 429, mt |-> NoType]}
       ELSE {[err |-> "none", status |-> 404, mt |-> NoType]}
  ELSE {[err |-> "fatal", status |-> 0, mt |-> NoType],
        [err |-> "none", status |-> 404, mt |-> NoType],
        [err |-> "none", status |-> 200, mt |-> Html]}

\* The default policy alone, which gives a 429 back to the caller.
retryPolicyDefault(resp) ==
  \/ resp.err = "transient"
  \/ /\ resp.err = "none"
     /\ \/ resp.status = 0
        \/ resp.status >= 500 /\ resp.status # 501

\* A policy that retries on the status of a response only.
retryPolicyStatusOnly(resp) ==
  /\ resp.err = "none"
  /\ \/ resp.status = 0
     \/ resp.status >= 500 /\ resp.status # 501
     \/ resp.status = 429

\* retryPolicy, on a response: the default policy retries a transport error
\* other than the fatal ones and a status of 0 or of 500 and above other than
\* 501, and 429 is retried on top of that.
retryPolicy(resp) ==
  \/ resp.err = "transient"
  \/ /\ resp.err = "none"
     /\ \/ resp.status = 0
        \/ resp.status >= 500 /\ resp.status # 501
        \/ resp.status = 429

\* The embed items a conversation hands to Add: a key and the candidate URLs
\* downloadURLSForEmbedItem finds in it.
Items ==
  {[key |-> "k1", urls |-> <<"bad", "ok">>],
   [key |-> "k2", urls |-> <<"ok", "ok">>],
   [key |-> "k2", urls |-> <<>>]}

----------------------------------------------------------------------------
(* util.HashForKey and the path arithmetic. *)

\* The SHA-256 digests, in hex, of the keys.
HashForKey(v) ==
  CASE v = "k1" -> "6ab9f1eb8f7d3388f4f9d586f66e99fd54080df2c446f0e58668b09c08a16dd0"
    [] v = "k2" -> "015f7e6bc5aeaf483724089e9252cc13b50951a6b69412522765cff4d780306e"
    [] v = "k3" -> "2f5052c9fd15b19a18c584d01363568198613f0c34e84409ef7938709a159ec2"

NoPath == <<>>

Join(dir, name) == <<dir>> \o name
Dir(p) == p[1]
Base(p) == Tail(p)

autoPrefixes == {"image/", "video/"}

extensionForMediaType(mt) ==
  CASE mt = <<"image/", "jpeg">> -> "jpg"
    [] mt = <<"image/", "png">> -> "png"
    [] mt = <<"image/", "gif">> -> "gif"
    [] OTHER -> IF mt # <<>> /\ mt[1] \in autoPrefixes THEN mt[2] ELSE ""

\* The file name OpenWriter computes: the digest, plus ".ext" when the media
\* type has an extension.
DestName(key, mt) ==
  LET ext == extensionForMediaType(mt)
  IN IF ext # "" THEN <<HashForKey(key), ".", ext>> ELSE <<HashForKey(key)>>

DestPath(base, key, mt) == Join(base, DestName(key, mt))

\* A Writer that writes in place: the destination itself as the file written.
TempNameInPlace(destPath, suffix) == destPath

\* A temporary file whose name begins with the name of the destination.
TempNameDigestFirst(destPath, suffix) ==
  Join(Dir(destPath), Base(destPath) \o <<"tmp-", suffix>>)

\* The name ioutil.TempFile makes from the pattern "tmp-"+Base(destPath): the
\* pattern followed by a suffix that names no existing file.
TempSuffixes == {"001"}
TempName(destPath, suffix) == Join(Dir(destPath), <<"tmp-">> \o Base(destPath) \o <<suffix>>)

\* The temporary file of k1 that an earlier run left when it was killed in
\* the middle of the copy.
LeftoverTemp == TempName(DestPath(BaseDir, "k1", Jpeg), "000")

\* Files of an earlier run that a run may find in the base directory.
PrevRunPaths == {DestPath(BaseDir, "k1", NoType), DestPath(BaseDir, "k1", Jpeg)}
\* The file of an earlier run in the directory whose name is no glob pattern.
BadDirPrevPaths == {DestPath(BadDir, "k1", Jpeg)}
\* A file outside the base directory that a snapshot document may name.
ForeignPath == <<"old", "a", ".", "jpg">>
MissingPath == <<"old", "gone">>

----------------------------------------------------------------------------
(* State. *)

VARIABLES
  BasePath,     \* Mapper.BasePath: "" or the base directory
  Overwrite,    \* Mapper.Overwrite
  attachments,  \* Mapper.attachments: the sync.Map, a function key -> path
  files,        \* the file system: path -> [data, src] for the paths that exist
  sem,          \* the number of tokens in the semaphore channel
  workers,      \* the bag of fetch goroutines in flight
  mainPc,       \* where the calling goroutine is: "start", "idle", "acquire",
                \* "wait", "exit"
  mainItem,     \* the item of the Add that is blocked in Acquire
  waitI,        \* the loop counter of semaphore.Wait
  added,        \* how many Add calls were made
  fetched,      \* key -> how many requests for it were answered with content
  opened,       \* key -> how many OpenWriter calls for it returned a Writer
  ret,          \* what the last call returned
  waited,       \* whether ImageDownloader.Wait has returned
  snapshot,     \* the snapshot document the run has written at its output path
  fresh,        \* a second Mapper, loaded from the snapshot
  throttle,     \* how many more requests the throttling URL answers with 429
  faults,       \* which system calls may fail: "none", "returned" or "all"
  lastIndex,    \* BulkImportWriter.lastIndex
  out,          \* the lines of the BulkImportWriter's output stream
  encErr,       \* the json.Encoder's sticky write error
  records,      \* how many BulkImportWriter.Add calls were made
  addRet,       \* the last BulkImportWriter.Add call and what it returned
  buildPc,      \* where BulkImportGenerator.Build is: "none", "version", "team",
                \* "channel", "users", "posts", "done"
  buildRet,     \* what Build returned
  buildI,       \* the loop counter of AddUserEntries and of AddChatPost
  lastTextPost, \* AddChatPost's lastTextPost: the Post object it points to
  postAtts,     \* per Post given to Add: how many attachments its line encodes
  addFailed     \* whether an Add call made by Build has returned an error

svars == <<waited, snapshot, fresh, throttle>>
pvars == <<BasePath, Overwrite, attachments, files, sem, workers, mainPc, mainItem,
           waitI, added, fetched, opened, ret, svars, faults>>
bvars == <<buildPc, buildRet, buildI, lastTextPost, postAtts, addFailed>>
wvars == <<lastIndex, out, encErr, records, addRet, bvars>>
vars == <<pvars, wvars>>

\* What the environment may do to a call. With faults "none" os.Stat
\* answers, ioutil.TempFile succeeds, and bodies and files are read and
\* written whole. With "returned" the calls whose error the code returns may
\* fail; with "all" so may the os.Remove of Writer.Close, whose error is only
\* logged.
StatOutcomes == IF faults # "none" THEN {"ok", "error"} ELSE {"ok"}
TempFileOutcomes == IF faults # "none" THEN BOOLEAN ELSE {TRUE}
CopyOutcomes == IF faults # "none" THEN BOOLEAN ELSE {TRUE}
CloseOutcomes == IF faults # "none" THEN {"ok", "closeErr", "renameErr"} ELSE {"ok"}
RemoveOutcomes == IF faults = "all" THEN BOOLEAN ELSE {TRUE}
FlushOutcomes == IF faults # "none" THEN {"ok", "createErr", "writeErr"} ELSE {"ok"}

----------------------------------------------------------------------------
(* The file system. *)

FileExists(fs, p) == p \in DOMAIN fs

WriteFile(fs, p, f) == [q \in DOMAIN fs \cup {p} |-> IF q = p THEN f ELSE fs[q]]

RemoveFile(fs, p) == [q \in DOMAIN fs \ {p} |-> fs[q]]

\* os.Rename: the file at from replaces whatever is at to.
Rename(fs, from, to) ==
  [q \in (DOMAIN fs \ {from}) \cup {to} |-> IF q = to THEN fs[from] ELSE fs[q]]

\* The order of strings, on the tokens file names are made of.
TokenRank(t) ==
  CASE t = "." -> 0
    [] t = "gif" -> 1
    [] t = "jpg" -> 2
    [] t = "mp4" -> 3
    [] t = "png" -> 4
    [] OTHER -> 5

RECURSIVE SeqLess(_, _)
SeqLess(a, b) ==
  IF a = <<>> THEN b # <<>>
  ELSE IF b = <<>> THEN FALSE
  ELSE IF Head(a) = Head(b) THEN SeqLess(Tail(a), Tail(b))
  ELSE TokenRank(Head(a)) < TokenRank(Head(b))

\* filepath.Glob fails on a pattern that is not well-formed.
BadPattern(base) == base = BadDir

\* filepath.Glob(Join(base, digest+"*")): the files of directory base whose
\* name begins with the digest.
Glob(fs, base, digest) ==
  {p \in DOMAIN fs : Len(p) >= 2 /\ p[1] = base /\ p[2] = digest}

\* matches[0]: Glob returns the names of a directory sorted.
GlobFirst(matches) ==
  CHOOSE p \in matches : \A q \in matches \ {p} : SeqLess(Base(p), Base(q))

----------------------------------------------------------------------------
(* attachment.Mapper. *)

Mapped(att, key) == key \in DOMAIN att

GetPath(att, key) == IF key \in DOMAIN att THEN att[key] ELSE NoPath

Store(att, key, value) ==
  [k \in DOMAIN att \cup {key} |-> IF k = key THEN value ELSE att[k]]

\* A LoadOrStore that is no claim: the value is stored over an existing one,
\* as a plain Store does.
StoreAlways(att, key, value) ==
  [map |-> Store(att, key, value), actual |-> value, loaded |-> FALSE]

\* sync.Map.LoadOrStore: the existing value if there is one, else value is
\* stored.
LoadOrStore(att, key, value) ==
  IF key \in DOMAIN att
  THEN [map |-> att, actual |-> att[key], loaded |-> TRUE]
  ELSE [map |-> Store(att, key, value), actual |-> value, loaded |-> FALSE]

ScanPathForKey(att, fs, base, key) ==
  IF GetPath(att, key) # NoPath
  THEN [path |-> GetPath(att, key), err |-> "nil", map |-> att]
  ELSE IF base = ""
  THEN [path |-> NoPath, err |-> "NotFound", map |-> att]
  ELSE IF BadPattern(base)
  THEN [path |-> NoPath, err |-> "GlobError", map |-> att]
  ELSE LET matches == Glob(fs, base, HashForKey(key))
       IN IF matches # {}
          THEN LET v == LoadOrStore(att, key, GlobFirst(matches))
               IN [path |-> v.actual, err |-> "nil", map |-> v.map]
          ELSE [path |-> NoPath, err |-> "NotFound", map |-> att]

\* encoding/json on a string, encoding and decoding: each byte that is no
\* part of a valid UTF-8 sequence becomes U+FFFD.
EncodeString(str) ==
  [i \in 1..Len(str) |-> IF str[i] = InvalidByte THEN ReplacementRune ELSE str[i]]

DecodeString(str) ==
  [i \in 1..Len(str) |-> IF str[i] = InvalidByte THEN ReplacementRune ELSE str[i]]

\* A SaveToJSON that writes a document without entries.
SaveToJSONEmpty(att) == [ok |-> TRUE, entries |-> [k \in {} |-> <<>>]]

\* SaveToJSON: the document that holds the entries of the index, as the
\* encoder writes them.
SaveToJSON(att) == [ok |-> TRUE, entries |-> [k \in DOMAIN att |-> EncodeString(att[k])]]

\* A load that replaces the index by the entries of the document.
LoadEntriesReplace(att, fs, entries, seen) ==
  LET kept == {k \in seen : FileExists(fs, DecodeString(entries[k]))}
  IN [k \in kept |-> DecodeString(entries[k])]

\* A load that stores an entry whether its path exists or not.
LoadEntriesNoStat(att, fs, entries, seen) ==
  [k \in DOMAIN att \cup seen |-> IF k \in seen THEN DecodeString(entries[k]) ELSE att[k]]

\* LoadFromJSON of a well-formed document: the entries ranged over before the
\* loop ends (all of them, or those before a failing os.Stat) are stored when
\* their path exists.
LoadEntries(att, fs, entries, seen) ==
  LET kept == {k \in seen : FileExists(fs, DecodeString(entries[k]))}
  IN [k \in DOMAIN att \cup kept |-> IF k \in kept THEN DecodeString(entries[k]) ELSE att[k]]

\* The entries a LoadFromJSON ranges over: all of them, or, when an os.Stat
\* fails otherwise than with does-not-exist, those before it.
SeenSets(entries) == IF faults # "none" THEN SUBSET DOMAIN entries ELSE {DOMAIN entries}

----------------------------------------------------------------------------
(* attachment.Writer. *)

NoWriter == [destPath |-> NoPath, tempFile |-> NoPath, open |-> FALSE]

\* makeWriter: the temporary file is created, empty, next to the destination.
makeWriter(fs, destPath, suffix) ==
  [fs |-> WriteFile(fs, TempName(destPath, suffix), [data |-> <<>>, src |-> "writer"]),
   w |-> [destPath |-> destPath, tempFile |-> TempName(destPath, suffix), open |-> TRUE]]

\* Writer.Write, n blocks of a body.
WriteBlocks(fs, w, body, n) ==
  WriteFile(fs, w.tempFile, [data |-> fs[w.tempFile].data \o SubSeq(body, 1, n), src |-> "writer"])

\* A Close that moves the temporary file to the destination before it closes
\* it, so that a failing close leaves the file there.
CloseWriterRenameFirst(fs, w, how, removes) ==
  IF ~w.open
  THEN [fs |-> IF removes THEN RemoveFile(fs, w.tempFile) ELSE fs, err |-> "closed"]
  ELSE IF how = "renameErr"
  THEN [fs |-> IF removes THEN RemoveFile(fs, w.tempFile) ELSE fs, err |-> how]
  ELSE [fs |-> Rename(fs, w.tempFile, w.destPath), err |-> IF how = "ok" THEN "nil" ELSE how]

\* Writer.Close. how is what the operating system does: "ok", "closeErr" (the
\* close of the temporary file fails) or "renameErr". When Close returns an
\* error its deferred function calls os.Remove on the temporary file, and
\* only logs when that fails: removes is whether it succeeds. A Writer whose
\* file is closed already fails in tempFile.Close.
CloseWriter(fs, w, how, removes) ==
  IF ~w.open
  THEN [fs |-> IF removes THEN RemoveFile(fs, w.tempFile) ELSE fs, err |-> "closed"]
  ELSE IF how = "ok"
  THEN [fs |-> Rename(fs, w.tempFile, w.destPath), err |-> "nil"]
  ELSE [fs |-> IF removes THEN RemoveFile(fs, w.tempFile) ELSE fs, err |-> how]

----------------------------------------------------------------------------
(* Mapper.OpenWriter and Mapper.LoadFromJSON on the state.                   *)

\* An OpenWriter that never looks for the destination file.
OpenWriterNoStat(att, fs, base, overwrite, key, mediaType, stat, temp, suffix) ==
  IF base = ""
  THEN [w |-> NoWriter, err |-> "NoBasePath", map |-> att, fs |-> fs, loaded |-> FALSE]
  ELSE LET path == DestPath(base, key, mediaType)
           v == LoadOrStore(att, key, path)
       IN IF v.loaded
          THEN [w |-> NoWriter, err |-> "Exists", map |-> v.map, fs |-> fs, loaded |-> TRUE]
          ELSE IF ~temp \/ FileExists(fs, TempName(path, suffix))
          THEN [w |-> NoWriter, err |-> "Error", map |-> v.map, fs |-> fs, loaded |-> FALSE]
          ELSE LET m == makeWriter(fs, path, suffix)
               IN [w |-> m.w, err |-> "nil", map |-> v.map, fs |-> m.fs, loaded |-> FALSE]

\* Mapper.OpenWriter. stat is what os.Stat does ("ok": it answers; "error": it
\* fails otherwise than with does-not-exist), temp whether ioutil.TempFile
\* succeeds. The error of os.Stat is returned as "StatError", that of
\* makeWriter as "Error".
OpenWriter(att, fs, base, overwrite, key, mediaType, stat, temp, suffix) ==
  IF base = ""
  THEN [w |-> NoWriter, err |-> "NoBasePath", map |-> att, fs |-> fs, loaded |-> FALSE]
  ELSE LET path == DestPath(base, key, mediaType)
           v == LoadOrStore(att, key, path)
       IN IF v.loaded
          THEN [w |-> NoWriter, err |-> "Exists", map |-> v.map, fs |-> fs, loaded |-> TRUE]
          ELSE IF ~overwrite /\ stat = "ok" /\ FileExists(fs, path)
          THEN [w |-> NoWriter, err |-> "Exists", map |-> v.map, fs |-> fs, loaded |-> FALSE]
          ELSE IF ~overwrite /\ stat = "error"
          THEN [w |-> NoWriter, err |-> "StatError", map |-> v.map, fs |-> fs, loaded |-> FALSE]
          ELSE IF ~temp \/ FileExists(fs, TempName(path, suffix))
          THEN [w |-> NoWriter, err |-> "Error", map |-> v.map, fs |-> fs, loaded |-> FALSE]
          ELSE LET m == makeWriter(fs, path, suffix)
               IN [w |-> m.w, err |-> "nil", map |-> v.map, fs |-> m.fs, loaded |-> FALSE]

EmptyIndex == [k \in {} |-> NoPath]

\* The snapshot documents a caller loads: a malformed one, and well-formed
\* ones that name a file outside the base directory, a file that is gone, a
\* file of an earlier run, the empty path, and a file of the base directory.
Docs ==
  {[ok |-> FALSE, entries |-> EmptyIndex],
   [ok |-> TRUE, entries |-> [k \in Keys |-> IF k = "k1" THEN ForeignPath ELSE MissingPath]],
   [ok |-> TRUE, entries |-> [k \in Keys |-> IF k = "k1" THEN DestPath(BaseDir, "k1", NoType) ELSE NoPath]],
   [ok |-> TRUE, entries |-> [k \in {"k2"} |-> DestPath(BaseDir, "k2", Jpeg)]]}

\* The snapshot at the run's output path: absent, or a document.
NoSnapshot == [exists |-> FALSE, ok |-> FALSE, entries |-> EmptyIndex]

\* withBufferedWriter(cmd.out, SaveToJSON): os.Create truncates the file at
\* the path, and the document is written to it through a buffer. how is what
\* the operating system does: "ok", "createErr" (os.Create fails) or
\* "writeErr" (the write, the flush or the close fails, and what is at the
\* path is no whole document).
WriteSnapshot(old, att, how) ==
  CASE how = "ok" -> [exists |-> TRUE, ok |-> TRUE, entries |-> SaveToJSON(att).entries]
    [] how = "createErr" -> old
    [] how = "writeErr" -> [exists |-> TRUE, ok |-> FALSE, entries |-> EmptyIndex]

\* A second Mapper before it is made.
NoFresh == [err |-> "none", index |-> EmptyIndex]

NoRet == [op |-> "none", key |-> "", val |-> "", loaded |-> FALSE, path |-> NoPath, data |-> <<>>]

Return(op, key, val) == [NoRet EXCEPT !.op = op, !.key = key, !.val = val]

\* LoadFromJSON into the index att, with the entries seen ranged over: what
\* it returns and the index after it. A document that does not decode is an
\* error and stores nothing.
LoadResult(att, fs, doc, seen) ==
  IF ~doc.ok
  THEN [err |-> "error", index |-> att]
  ELSE [err |-> IF seen = DOMAIN doc.entries THEN "nil" ELSE "error",
        index |-> LoadEntries(att, fs, doc.entries, seen)]

\* LoadFromJSON on the Mapper of the state. It returns nil when result is
\* "nil".
LoadFromJSON(doc, result) ==
  \E r \in {LoadResult(attachments, files, doc, seen) : seen \in SeenSets(doc.entries)} :
    /\ result = r.err
    /\ attachments' = r.index

----------------------------------------------------------------------------
(* Initial states: a Mapper as its caller constructs it, an empty index, and *)
(* the files an earlier run left behind.                                     *)

PrevFile(key) == [data |-> Body(key), src |-> "prev"]

InitialFiles(prev) == [p \in prev \cup {ForeignPath} |-> PrevFile("k1")]

NoItem == [key |-> "", urls |-> <<>>]

\* The download-attachments command: Execute has created the base directory.
\* The calls whose error the code returns may fail.
PInit ==
  /\ BasePath \in {BaseDir, BadDir}
  /\ Overwrite \in BOOLEAN
  /\ attachments = EmptyIndex
  /\ \E prev \in SUBSET (IF BasePath = BaseDir THEN PrevRunPaths ELSE BadDirPrevPaths) :
       files = InitialFiles(prev)
  /\ sem = 0
  /\ workers = EmptyBag
  /\ mainPc = "start"
  /\ mainItem = NoItem
  /\ waitI = 0
  /\ added = 0
  /\ fetched = [k \in AllKeys |-> 0]
  /\ opened = [k \in AllKeys |-> 0]
  /\ ret = NoRet
  /\ waited = FALSE
  /\ snapshot = NoSnapshot
  /\ fresh = NoFresh
  /\ throttle = 0
  /\ faults = "returned"

----------------------------------------------------------------------------
(* The fetch goroutine Add starts: downloadURL and, per candidate URL,      *)
(* tryDownloadURL. A goroutine is a record                                  *)
(*   pc    where it is: "fetch" (before client.Do), "open" (before          *)
(*         OpenWriter), "copy" (before io.CopyBuffer), "close" (before the  *)
(*         w.Close() that follows the copy)                                 *)
(*   key   the item's key                                                   *)
(*   urls  the candidate URLs not tried yet, the current one first          *)
(*   mt    the media type of the current response                           *)
(*   w     the Writer of the current attempt                                *)
(* When downloadURL returns, the deferred d.sem.Release() receives from the *)
(* channel and the goroutine ends.                                          *)

Worker(item) == [pc |-> "fetch", key |-> item.key, urls |-> item.urls, mt |-> NoType, w |-> NoWriter]

InFlight == BagCardinality(workers)

\* A send that never blocks, as on a channel without a bound.
CanAcquireAlways(s) == TRUE

\* The semaphore channel: Acquire is a send, which needs room in the buffer;
\* Release is a receive.
CanAcquire(s) == s < Concurrency

\* A send that takes no room in the buffer.
AcquireNone(s) == s

Acquire(s) == s + 1

\* A receive that takes no token out of the buffer.
ReleaseNone(s) == s

Release(s) == s - 1

\* downloadURL returns: the goroutine releases its slot and ends.
Exit(w) ==
  /\ workers' = workers (-) SetToBag({w})
  /\ sem' = Release(sem)

\* The goroutine goes on as v.
Goto(w, v) ==
  /\ workers' = (workers (-) SetToBag({w})) (+) SetToBag({v})
  /\ UNCHANGED sem

\* A downloadURL that returns at the first error.
FailedGivesUp(w) == Exit(w)

\* tryDownloadURL returned an error: downloadURL goes on to the next URL, or
\* returns when there is none.
Failed(w) ==
  IF Len(w.urls) > 1
  THEN Goto(w, [w EXCEPT !.pc = "fetch", !.urls = Tail(w.urls), !.mt = NoType, !.w = NoWriter])
  ELSE Exit(w)

\* A downloadURL that goes on to the next URL after a nil as after an error.
SucceededTriesNext(w) == Failed(w)

\* tryDownloadURL returned nil: downloadURL returns.
Succeeded(w) == Exit(w)

\* client.Do and the checks of the response. A response retryPolicy wants
\* retried has client.Do request the URL again, which the server counts.
\* fetched counts, up to two, the requests for the key that were answered
\* with content.
Fetch(w) ==
  /\ w.pc = "fetch"
  /\ \E resp \in Serve(Head(w.urls), throttle) :
       IF retryPolicy(resp)
       THEN /\ throttle' = throttle - 1
            /\ UNCHANGED <<workers, sem, fetched>>
       ELSE /\ IF resp.err # "none" \/ resp.status # 200 \/ resp.mt = Html
               THEN /\ Failed(w)
                    /\ UNCHANGED fetched
               ELSE /\ Goto(w, [w EXCEPT !.pc = "open", !.mt = resp.mt])
                    /\ fetched' = [fetched EXCEPT ![w.key] = IF @ < 2 THEN @ + 1 ELSE @]
            /\ UNCHANGED throttle
  /\ UNCHANGED <<BasePath, Overwrite, attachments, files, mainPc, mainItem, waitI, added, opened, ret,
                 wvars, waited, snapshot, fresh, faults>>

\* The OpenWriter call of tryDownloadURL and what follows from its result.
Open(w) ==
  /\ w.pc = "open"
  /\ \E o \in {OpenWriter(attachments, files, BasePath, Overwrite, w.key, w.mt, stat, temp, suffix) :
             stat \in StatOutcomes, temp \in TempFileOutcomes, suffix \in TempSuffixes} :
       /\ attachments' = o.map
       /\ files' = o.fs
       /\ ret' = [Return("OpenWriter", w.key, o.err) EXCEPT !.loaded = o.loaded]
       /\ IF o.err = "nil"
          THEN /\ Goto(w, [w EXCEPT !.pc = "copy", !.w = o.w])
               /\ opened' = [opened EXCEPT ![w.key] = @ + 1]
          ELSE /\ IF o.err = "Exists" THEN Succeeded(w) ELSE Failed(w)
               /\ UNCHANGED opened
  /\ UNCHANGED <<BasePath, Overwrite, mainPc, mainItem, waitI, added, fetched, wvars, svars, faults>>

\* io.CopyBuffer. It writes n blocks; when it fails, tryDownloadURL returns the
\* error and its deferred function closes the Writer.
Copy(w) ==
  /\ w.pc = "copy"
  /\ \E n \in 0..BodyLen, ok \in CopyOutcomes :
       /\ ok => n = BodyLen
       /\ LET written == WriteBlocks(files, w.w, Body(w.key), n)
          IN IF ok
             THEN /\ files' = written
                  /\ Goto(w, [w EXCEPT !.pc = "close"])
             ELSE \E c \in {CloseWriter(written, w.w, how, removes) :
                                how \in CloseOutcomes, removes \in RemoveOutcomes} :
                    /\ files' = c.fs
                    /\ Failed(w)
  /\ UNCHANGED <<BasePath, Overwrite, attachments, mainPc, mainItem, waitI, added, fetched, opened, ret, wvars, svars, faults>>

\* w.Close() after a complete copy. When it fails, tryDownloadURL returns the
\* error and its deferred function closes the Writer a second time.
\* The second Close fails in tempFile.Close and calls os.Remove once more.
Close(w) ==
  /\ w.pc = "close"
  /\ \E c \in {CloseWriter(files, w.w, how, removes) :
             how \in CloseOutcomes, removes \in RemoveOutcomes} :
       IF c.err = "nil"
       THEN /\ files' = c.fs
            /\ Succeeded(w)
       ELSE /\ \E removes \in RemoveOutcomes :
                 files' = CloseWriter(c.fs, [w.w EXCEPT !.open = FALSE], "ok", removes).fs
            /\ Failed(w)
  /\ UNCHANGED <<BasePath, Overwrite, attachments, mainPc, mainItem, waitI, added, fetched, opened, ret, wvars, svars, faults>>

----------------------------------------------------------------------------
(* The calling goroutine, donwloadAttachmentsCommand.Execute: the snapshot   *)
(* is loaded, then ImageDownloader.Add per embed item, then Wait.            *)

\* Execute loads the snapshot of an earlier run unless -overwrite is set or
\* there is none; a LoadFromJSON that fails ends the command.
ExecuteLoad(doc) ==
  /\ mainPc = "start"
  /\ ~Overwrite
  /\ \E result \in {"nil", "error"} :
       /\ LoadFromJSON(doc, result)
       /\ mainPc' = IF result = "nil" THEN "idle" ELSE "exit"
  /\ UNCHANGED <<BasePath, Overwrite, files, sem, workers, mainItem, waitI, added, fetched, opened, ret, wvars, svars, faults>>

ExecuteNoLoad ==
  /\ mainPc = "start"
  /\ mainPc' = "idle"
  /\ UNCHANGED <<BasePath, Overwrite, attachments, files, sem, workers, mainItem, waitI, added, fetched, opened, ret, wvars, svars, faults>>

\* Add up to d.sem.Acquire(): the scan for the key and the candidate URLs.
\* mainItem is the item of the Add; an Add that returns here returns false.
AddScan(item) ==
  /\ mainPc = "idle"
  /\ added < MaxAdds
  /\ added' = added + 1
  /\ LET scan == ScanPathForKey(attachments, files, BasePath, item.key)
     IN /\ attachments' = scan.map
        /\ mainItem' = item
        /\ IF scan.err = "nil" \/ Len(item.urls) = 0
           THEN /\ ret' = [Return("Add", item.key, "false") EXCEPT !.path = scan.path]
                /\ UNCHANGED mainPc
           ELSE /\ mainPc' = "acquire"
                /\ UNCHANGED ret
  /\ UNCHANGED <<BasePath, Overwrite, files, sem, workers, waitI, fetched, opened, wvars, svars, faults>>

\* d.sem.Acquire() in Add and the go statement; Add returns true.
AddAcquire ==
  /\ mainPc = "acquire"
  /\ CanAcquire(sem)
  /\ sem' = Acquire(sem)
  /\ workers' = workers (+) SetToBag({Worker(mainItem)})
  /\ mainPc' = "idle"
  /\ ret' = Return("Add", mainItem.key, "true")
  /\ UNCHANGED <<BasePath, Overwrite, attachments, files, mainItem, waitI, added, fetched, opened, wvars, svars, faults>>

\* A Wait that makes one round too few.
WaitDoneEarly(i) == ~(i < Concurrency - 1)

\* for i := 0; i < cap(s); i++: whether semaphore.Wait has made its rounds.
WaitDone(i) == ~(i < Concurrency)

\* The call of Wait.
WaitCall ==
  /\ mainPc = "idle"
  /\ waitI' = 0
  /\ mainPc' = IF WaitDone(0) THEN "idle" ELSE "wait"
  /\ waited' = IF WaitDone(0) THEN TRUE ELSE waited
  /\ UNCHANGED <<BasePath, Overwrite, attachments, files, sem, workers, mainItem, added, fetched, opened, ret,
                 wvars, snapshot, fresh, throttle, faults>>

\* One s.Acquire() of semaphore.Wait; Wait returns after the last of them.
WaitAcquire ==
  /\ mainPc = "wait"
  /\ CanAcquire(sem)
  /\ sem' = Acquire(sem)
  /\ IF WaitDone(waitI + 1)
     THEN waitI' = 0 /\ mainPc' = "idle" /\ waited' = TRUE
     ELSE waitI' = waitI + 1 /\ UNCHANGED <<mainPc, waited>>
  /\ UNCHANGED <<BasePath, Overwrite, attachments, files, workers, mainItem, added, fetched, opened, ret,
                 wvars, snapshot, fresh, throttle, faults>>

\* The end of Execute: once Wait has returned the snapshot is written, and
\* the command exits whether that succeeded or not.
FinalFlush ==
  /\ mainPc = "idle"
  /\ waited
  /\ \E how \in FlushOutcomes : snapshot' = WriteSnapshot(snapshot, attachments, how)
  /\ mainPc' = "exit"
  /\ UNCHANGED <<BasePath, Overwrite, attachments, files, sem, workers, mainItem, waitI, added, fetched, opened, ret,
                 wvars, waited, fresh, throttle, faults>>

PNext ==
  \/ \E doc \in Docs : ExecuteLoad(doc)
  \/ ExecuteNoLoad
  \/ \E item \in Items : AddScan(item)
  \/ AddAcquire
  \/ WaitCall
  \/ WaitAcquire
  \/ FinalFlush
  \/ \E w \in BagToSet(workers) : Fetch(w)
  \/ \E w \in BagToSet(workers) : Open(w)
  \/ \E w \in BagToSet(workers) : Copy(w)
  \/ \E w \in BagToSet(workers) : Close(w)

----------------------------------------------------------------------------
(* One run of the command from an empty base directory, with no failing     *)
(* system call: three embed items are handed to Add in turn, the first with *)
(* a URL that serves the content, the second with a URL that answers 429    *)
(* once and serves the content after that, the third with a URL that serves *)
(* nothing usable; then Wait, then the final snapshot.                      *)

ScenarioItems ==
  <<[key |-> "k1", urls |-> <<"ok">>],
    [key |-> "k2", urls |-> <<"busy">>],
    [key |-> "k3", urls |-> <<"bad">>]>>

ScenarioInit ==
  /\ BasePath = BaseDir
  /\ Overwrite \in BOOLEAN
  /\ attachments = EmptyIndex
  /\ files = [p \in {} |-> PrevFile("k1")]
  /\ sem = 0
  /\ workers = EmptyBag
  /\ mainPc = "start"
  /\ mainItem = NoItem
  /\ waitI = 0
  /\ added = 0
  /\ fetched = [k \in AllKeys |-> 0]
  /\ opened = [k \in AllKeys |-> 0]
  /\ ret = NoRet
  /\ waited = FALSE
  /\ snapshot = NoSnapshot
  /\ fresh = NoFresh
  /\ throttle = 1
  /\ faults = "none"

\* The loop of Execute over the embed items.
ScenarioAdd ==
  /\ added < Len(ScenarioItems)
  /\ AddScan(ScenarioItems[added + 1])

\* Execute calls Wait after the last item.
ScenarioWait ==
  /\ added = Len(ScenarioItems)
  /\ ~waited
  /\ WaitCall

ScenarioPNext ==
  \/ ExecuteNoLoad
  \/ ScenarioAdd
  \/ AddAcquire
  \/ ScenarioWait
  \/ WaitAcquire
  \/ FinalFlush
  \/ \E w \in BagToSet(workers) : Fetch(w)
  \/ \E w \in BagToSet(workers) : Open(w)
  \/ \E w \in BagToSet(workers) : Copy(w)
  \/ \E w \in BagToSet(workers) : Close(w)

----------------------------------------------------------------------------
(* Runs of the command against a server that fails for a while: with no    *)
(* failing system call, from a base directory that is empty or holds the    *)
(* temporary file a killed run left, embed items whose candidate URLs fail  *)
(* with transient outcomes for the first requests.                          *)

RetryItems ==
  {[key |-> "k1", urls |-> <<"flaky", "ok">>],
   [key |-> "k2", urls |-> <<"busy">>],
   [key |-> "k2", urls |-> <<"bad", "flaky">>]}

RetryInit ==
  /\ BasePath = BaseDir
  /\ Overwrite = FALSE
  /\ attachments = EmptyIndex
  /\ \E left \in SUBSET {LeftoverTemp} :
       files = [p \in left |-> [data |-> SubSeq(Body("k1"), 1, 1), src |-> "prev"]]
  /\ sem = 0
  /\ workers = EmptyBag
  /\ mainPc = "start"
  /\ mainItem = NoItem
  /\ waitI = 0
  /\ added = 0
  /\ fetched = [k \in AllKeys |-> 0]
  /\ opened = [k \in AllKeys |-> 0]
  /\ ret = NoRet
  /\ waited = FALSE
  /\ snapshot = NoSnapshot
  /\ fresh = NoFresh
  /\ throttle = MaxRetries
  /\ faults = "none"

RetryPNext ==
  \/ ExecuteNoLoad
  \/ \E item \in RetryItems : AddScan(item)
  \/ AddAcquire
  \/ WaitCall
  \/ WaitAcquire
  \/ FinalFlush
  \/ \E w \in BagToSet(workers) : Fetch(w)
  \/ \E w \in BagToSet(workers) : Open(w)
  \/ \E w \in BagToSet(workers) : Copy(w)
  \/ \E w \in BagToSet(workers) : Close(w)

----------------------------------------------------------------------------
(* Runs of the command that are killed and started again: the snapshot is   *)
(* also written inside the loop of Execute, while goroutines are in flight, *)
(* the process may be killed in any state, and the next run starts from the *)
(* files and the snapshot the killed one left. No system call fails.        *)

ResumeItems ==
  {[key |-> "k1", urls |-> <<"bad", "ok">>],
   [key |-> "k2", urls |-> <<"ok">>]}

ResumeInit ==
  /\ BasePath = BaseDir
  /\ Overwrite = FALSE
  /\ attachments = EmptyIndex
  /\ files = [p \in {} |-> PrevFile("k1")]
  /\ sem = 0
  /\ workers = EmptyBag
  /\ mainPc = "start"
  /\ mainItem = NoItem
  /\ waitI = 0
  /\ added = 0
  /\ fetched = [k \in AllKeys |-> 0]
  /\ opened = [k \in AllKeys |-> 0]
  /\ ret = NoRet
  /\ waited = FALSE
  /\ snapshot = NoSnapshot
  /\ fresh = NoFresh
  /\ throttle = 0
  /\ faults = "none"

\* The start of Execute: the snapshot is loaded when its file exists.
ExecuteResume ==
  IF snapshot.exists THEN ExecuteLoad(snapshot) ELSE ExecuteNoLoad

\* The flushAttachments call inside the loop of Execute, made once enough
\* Add calls have returned true: here, after any Add of the loop. When it
\* fails the command exits without Wait.
PeriodicFlush ==
  /\ mainPc = "idle"
  /\ ~waited
  /\ added > 0
  /\ \E how \in FlushOutcomes :
       /\ snapshot' = WriteSnapshot(snapshot, attachments, how)
       /\ mainPc' = IF how = "ok" THEN "idle" ELSE "exit"
  /\ UNCHANGED <<BasePath, Overwrite, attachments, files, sem, workers, mainItem, waitI, added, fetched, opened, ret,
                 wvars, waited, fresh, throttle, faults>>

\* The process is killed: its goroutines and its index are gone, the files
\* stay as they are, the temporary files included, and the snapshot is torn
\* when the process was writing it. The command is then started again.
Kill(torn) ==
  /\ mainPc # "start"
  /\ torn => (mainPc = "idle" /\ added > 0)
  /\ snapshot' = IF torn THEN WriteSnapshot(snapshot, attachments, "writeErr") ELSE snapshot
  /\ attachments' = EmptyIndex
  /\ sem' = 0
  /\ workers' = EmptyBag
  /\ mainPc' = "start"
  /\ mainItem' = NoItem
  /\ waitI' = 0
  /\ added' = 0
  /\ fetched' = [k \in AllKeys |-> 0]
  /\ opened' = [k \in AllKeys |-> 0]
  /\ ret' = NoRet
  /\ waited' = FALSE
  /\ UNCHANGED <<BasePath, Overwrite, files, wvars, fresh, throttle, faults>>

ResumePNext ==
  \/ ExecuteResume
  \/ \E item \in ResumeItems : AddScan(item)
  \/ AddAcquire
  \/ PeriodicFlush
  \/ WaitCall
  \/ WaitAcquire
  \/ FinalFlush
  \/ \E torn \in BOOLEAN : Kill(torn)
  \/ \E w \in BagToSet(workers) : Fetch(w)
  \/ \E w \in BagToSet(workers) : Open(w)
  \/ \E w \in BagToSet(workers) : Copy(w)
  \/ \E w \in BagToSet(workers) : Close(w)

----------------------------------------------------------------------------
(* The Mapper and its Writers as a library: callers that call OpenWriter,    *)
(* Write and Close, ScanPathForKey and LoadFromJSON in any order. A caller   *)
(* that holds a Writer is a record of the key, the Writer w and sent, the    *)
(* blocks it has passed to Write.                                            *)

\* The media types callers pass to OpenWriter.
MediaTypes == {Jpeg, <<"application/", "pdf">>}

MInit ==
  /\ BasePath \in {"", BaseDir}
  /\ Overwrite \in BOOLEAN
  /\ attachments = EmptyIndex
  /\ \E prev \in SUBSET PrevRunPaths : files = InitialFiles(prev)
  /\ sem = 0
  /\ workers = EmptyBag
  /\ mainPc = "idle"
  /\ mainItem = NoItem
  /\ waitI = 0
  /\ added = 0
  /\ fetched = [k \in AllKeys |-> 0]
  /\ opened = [k \in AllKeys |-> 0]
  /\ ret = NoRet
  /\ waited = FALSE
  /\ snapshot = NoSnapshot
  /\ fresh = NoFresh
  /\ throttle = 0
  /\ faults = "all"

\* A caller's OpenWriter. ret.path is the destination path the call computed.
CallOpenWriter(key, mediaType) ==
  /\ \E o \in {OpenWriter(attachments, files, BasePath, Overwrite, key, mediaType, stat, temp, suffix) :
             stat \in StatOutcomes, temp \in TempFileOutcomes, suffix \in TempSuffixes} :
       /\ attachments' = o.map
       /\ files' = o.fs
       /\ ret' = [Return("OpenWriter", key, o.err)
                    EXCEPT !.loaded = o.loaded,
                           !.path = IF BasePath = "" THEN NoPath ELSE DestPath(BasePath, key, mediaType)]
       /\ IF o.err = "nil"
          THEN /\ workers' = workers (+) SetToBag({[key |-> key, w |-> o.w, sent |-> <<>>]})
               /\ opened' = [opened EXCEPT ![key] = @ + 1]
          ELSE UNCHANGED <<workers, opened>>
  /\ UNCHANGED <<BasePath, Overwrite, sem, mainPc, mainItem, waitI, added, fetched, wvars, svars, faults>>

\* Writer.Write of the next block of the key's body.
CallWrite(c) ==
  /\ Len(c.sent) < BodyLen
  /\ LET block == SubSeq(Body(c.key), Len(c.sent) + 1, Len(c.sent) + 1)
     IN /\ files' = WriteBlocks(files, c.w, block, 1)
        /\ workers' = (workers (-) SetToBag({c})) (+) SetToBag({[c EXCEPT !.sent = @ \o block]})
  /\ ret' = Return("Write", c.key, "nil")
  /\ UNCHANGED <<BasePath, Overwrite, attachments, sem, mainPc, mainItem, waitI, added, fetched, opened, wvars, svars, faults>>

CallClose(c) ==
  /\ \E r \in {CloseWriter(files, c.w, how, removes) :
             how \in CloseOutcomes, removes \in RemoveOutcomes} :
       /\ files' = r.fs
       /\ ret' = [Return("Close", c.key, r.err) EXCEPT !.path = c.w.destPath, !.data = c.sent]
  /\ workers' = workers (-) SetToBag({c})
  /\ UNCHANGED <<BasePath, Overwrite, attachments, sem, mainPc, mainItem, waitI, added, fetched, opened, wvars, svars, faults>>

CallScanPathForKey(key) ==
  /\ LET scan == ScanPathForKey(attachments, files, BasePath, key)
     IN /\ attachments' = scan.map
        /\ ret' = [Return("ScanPathForKey", key, scan.err) EXCEPT !.path = scan.path]
  /\ UNCHANGED <<BasePath, Overwrite, files, sem, workers, mainPc, mainItem, waitI, added, fetched, opened, wvars, svars, faults>>

CallLoadFromJSON(doc) ==
  /\ \E result \in {"nil", "error"} :
       /\ LoadFromJSON(doc, result)
       /\ ret' = Return("LoadFromJSON", "", result)
  /\ UNCHANGED <<BasePath, Overwrite, files, sem, workers, mainPc, mainItem, waitI, added, fetched, opened, wvars, svars, faults>>

\* Mapper.Mapped and Mapper.GetPath: a Load of the key.
CallMapped(key) ==
  /\ ret' = Return("Mapped", key, IF key \in DOMAIN attachments THEN "true" ELSE "false")
  /\ UNCHANGED <<BasePath, Overwrite, attachments, files, sem, workers, mainPc, mainItem, waitI, added, fetched, opened, wvars, svars, faults>>

CallGetPath(key) ==
  /\ ret' = [Return("GetPath", key, "") EXCEPT
               !.path = IF key \in DOMAIN attachments THEN attachments[key] ELSE NoPath]
  /\ UNCHANGED <<BasePath, Overwrite, attachments, files, sem, workers, mainPc, mainItem, waitI, added, fetched, opened, wvars, svars, faults>>

\* Mapper.SaveToJSON to a writer of the caller: the index is ranged over and
\* encoded, and the writer's error is returned.
CallSaveToWriter(how) ==
  /\ ret' = Return("SaveToJSON", "", IF how = "ok" THEN "nil" ELSE "error")
  /\ UNCHANGED <<BasePath, Overwrite, attachments, files, sem, workers, mainPc, mainItem, waitI, added, fetched, opened, wvars, svars, faults>>

MNext ==
  \/ \E key \in Keys, mediaType \in MediaTypes : CallOpenWriter(key, mediaType)
  \/ \E c \in BagToSet(workers) : CallWrite(c)
  \/ \E c \in BagToSet(workers) : CallClose(c)
  \/ \E key \in Keys : CallScanPathForKey(key)
  \/ \E doc \in Docs : CallLoadFromJSON(doc)
  \/ \E key \in Keys : CallMapped(key)
  \/ \E key \in Keys : CallGetPath(key)
  \/ \E how \in {"ok", "writeErr"} : CallSaveToWriter(how)

----------------------------------------------------------------------------
(* A Mapper saved to a snapshot and a second Mapper loaded from it. *)

\* The paths a key has in the index that is saved: what OpenWriter computed
\* for a response of type image/jpeg or video/mp4, or of a type that is no
\* media type.
SavedPaths(key) ==
  {DestPath(BaseDir, key, Jpeg), DestPath(BaseDir, key, Mp4), DestPath(BaseDir, key, RawType)}

\* The indexes that are saved: any of the keys mapped, each to one of its
\* paths.
SavedIndexes ==
  UNION {[ks -> UNION {SavedPaths(k) : k \in ks}] : ks \in SUBSET Keys}

SInit ==
  /\ BasePath = BaseDir
  /\ Overwrite = FALSE
  /\ attachments \in {att \in SavedIndexes : \A k \in DOMAIN att : att[k] \in SavedPaths(k)}
  /\ files = [p \in {attachments[k] : k \in DOMAIN attachments} |-> [data |-> <<>>, src |-> "writer"]]
  /\ sem = 0
  /\ workers = EmptyBag
  /\ mainPc = "idle"
  /\ mainItem = NoItem
  /\ waitI = 0
  /\ added = 0
  /\ fetched = [k \in AllKeys |-> 0]
  /\ opened = [k \in AllKeys |-> 0]
  /\ ret = NoRet
  /\ waited = FALSE
  /\ snapshot = NoSnapshot
  /\ fresh = NoFresh
  /\ throttle = 0
  /\ faults = "all"

\* SaveToJSON, to the file at the output path.
CallSaveToJSON ==
  /\ \E how \in FlushOutcomes :
       /\ snapshot' = WriteSnapshot(snapshot, attachments, how)
       /\ ret' = Return("SaveToJSON", "", IF how = "ok" THEN "nil" ELSE "error")
  /\ UNCHANGED <<BasePath, Overwrite, attachments, files, sem, workers, mainPc, mainItem, waitI, added,
                 fetched, opened, wvars, waited, fresh, throttle, faults>>

\* A file is deleted, by another program, before the snapshot is loaded.
DeleteFile(p) ==
  /\ fresh = NoFresh
  /\ FileExists(files, p)
  /\ files' = RemoveFile(files, p)
  /\ UNCHANGED <<BasePath, Overwrite, attachments, sem, workers, mainPc, mainItem, waitI, added,
                 fetched, opened, ret, wvars, svars, faults>>

\* LoadFromJSON of the snapshot into a second Mapper, new and empty.
CallLoadFresh ==
  /\ fresh = NoFresh
  /\ snapshot.exists
  /\ \E seen \in SeenSets(snapshot.entries) :
       /\ fresh' = LoadResult(EmptyIndex, files, snapshot, seen)
       /\ ret' = Return("LoadFromJSON", "", LoadResult(EmptyIndex, files, snapshot, seen).err)
  /\ UNCHANGED <<BasePath, Overwrite, attachments, files, sem, workers, mainPc, mainItem, waitI, added,
                 fetched, opened, wvars, waited, snapshot, throttle, faults>>

SNext ==
  \/ CallSaveToJSON
  \/ \E p \in DOMAIN files : DeleteFile(p)
  \/ CallLoadFresh

----------------------------------------------------------------------------
(* mattermost.BulkImportWriter. *)

containerOrder ==
  <<"version", "scheme", "team", "channel", "user", "post", "direct_channel", "direct_post">>

\* containerOrderMap[t], an index from 0; a type the map lacks reads as 0.
containerOrderMap(t) ==
  IF \E i \in 1..Len(containerOrder) : containerOrder[i] = t
  THEN (CHOOSE i \in 1..Len(containerOrder) : containerOrder[i] = t) - 1
  ELSE 0

\* The types of the entries that implement BulkImportEntry.
EntryTypes == {"version", "team", "channel", "user", "post"}

NoError == [kind |-> "nil", first |-> "", second |-> ""]

\* The last Add call: the type of its entry and the error it returned.
NoCall == [type |-> "", err |-> NoError]

\* AddChatPost's lastTextPost before the first text post: nil.
NoPost == [user |-> "", atts |-> 0, encoded |-> 0, written |-> FALSE]

WInit ==
  /\ lastIndex = 0
  /\ out = <<>>
  /\ encErr = FALSE
  /\ records = 0
  /\ addRet = NoCall
  /\ buildPc = "none"
  /\ buildRet = ""
  /\ buildI = 0
  /\ lastTextPost = NoPost
  /\ postAtts = <<>>
  /\ addFailed = FALSE

\* An order check that also rejects an entry of the last type written.
OutOfOrderStrict(idx, last) == idx <= last

\* An order check that rejects nothing.
OutOfOrderNever(idx, last) == FALSE

\* An order check that also rejects an entry that skips a type.
OutOfOrderContiguous(idx, last) == idx < last \/ idx > last + 1

\* The check of Add: the entry's type comes before the last one written.
OutOfOrder(idx, last) == idx < last

\* json.Encoder.Encode of one container on the stream. write is what the
\* stream does with the line: "ok", "fail" (nothing of it is written) or
\* "partial" (the write fails after part of the line). An Encoder whose write
\* failed keeps the error and writes no more.
Encode(stream, failed, t, write) ==
  IF failed
  THEN [out |-> stream, failed |-> TRUE, err |-> [NoError EXCEPT !.kind = "write"]]
  ELSE IF write = "ok"
  THEN [out |-> Append(stream, [type |-> t, complete |-> TRUE]), failed |-> FALSE, err |-> NoError]
  ELSE [out |-> IF write = "partial"
                THEN Append(stream, [type |-> t, complete |-> FALSE])
                ELSE stream,
        failed |-> TRUE, err |-> [NoError EXCEPT !.kind = "write"]]

\* What BulkImportWriter.Add returns for an entry of type t.
AddResult(t, write) ==
  LET idx == containerOrderMap(t)
  IN IF OutOfOrder(idx, lastIndex)
     THEN [type |-> t,
           err |-> [kind |-> "order", first |-> containerOrder[idx + 1],
                    second |-> containerOrder[lastIndex + 1]]]
     ELSE [type |-> t, err |-> Encode(out, encErr, t, write).err]

\* BulkImportWriter.Add of an entry of type t: the call counted, and its effect
\* on the writer.
AddEntry(t, write) ==
  /\ records' = records + 1
  /\ addRet' = AddResult(t, write)
  /\ LET idx == containerOrderMap(t)
     IN IF OutOfOrder(idx, lastIndex)
        THEN UNCHANGED <<lastIndex, out, encErr>>
        ELSE LET e == Encode(out, encErr, t, write)
             IN /\ lastIndex' = idx
                /\ out' = e.out
                /\ encErr' = e.failed

\* BulkImportWriter.Add of an entry of type t, called on its own.
Add(t, write) ==
  /\ UNCHANGED <<pvars, bvars>>
  /\ records < MaxRecords
  /\ AddEntry(t, write)

WriteOutcomes == {"ok", "fail", "partial"}

WNext == \E t \in EntryTypes, write \in WriteOutcomes : Add(t, write)

----------------------------------------------------------------------------
(* BulkImportGenerator.Build: the export of one conversation. *)

Senders == {"u1", "u2"}

\* The sender of an event whose participant has no entry in the user map.
Unmapped == "nobody"

\* How many mapped attachments an event has: none, a few, or one more than
\* a post may hold before AddChatPost stops adding to it.
AttCounts == {0, MaxAtts, MaxAttachmentsPerPost + 1}

\* The chat events of the conversation as AddChatPost sees them, in timestamp
\* order: the sender, whether the event has text, and how many of its
\* attachments are mapped.
Events == [user : Senders \cup {Unmapped}, text : BOOLEAN, atts : AttCounts]

Min(a, b) == IF a < b THEN a ELSE b

\* An AddChatPost that leaves the last text post as it is.
MovedNone(e, last) == 0

\* How many attachments of an attachment-only event AddChatPost moves onto
\* the last text post: the event is by that post's user, and the loop runs
\* while attachments remain and the post has at most MaxAttachmentsPerPost.
Moved(e, last) ==
  IF last # NoPost /\ ~e.text /\ e.user = last.user /\ last.atts <= MaxAttachmentsPerPost
  THEN Min(e.atts, MaxAttachmentsPerPost + 1 - last.atts)
  ELSE 0

\* Build is called: allUsers fails when a participant is not mapped and
\* RequireAllParticipantsMapped is set.
BuildCall(allMapped) ==
  /\ buildPc = "none"
  /\ records = 0
  /\ IF allMapped
     THEN buildPc' = "version" /\ UNCHANGED buildRet
     ELSE buildPc' = "done" /\ buildRet' = "Missing"
  /\ UNCHANGED <<pvars, lastIndex, out, encErr, records, addRet, buildI, lastTextPost,
                 postAtts, addFailed>>

\* Which of Build's steps return the error of their Add call: the version
\* entry's only.
ReturnsError(step, result) == step = "version" /\ result.err # NoError

\* One Add of Build outside the loops: the version, team or channel entry.
BuildAdd(step, next, write) ==
  /\ buildPc = step
  /\ AddEntry(step, write)
  /\ addFailed' = (addFailed \/ AddResult(step, write).err # NoError)
  /\ IF ReturnsError(step, AddResult(step, write))
     THEN buildPc' = "done" /\ buildRet' = AddResult(step, write).err.kind
     ELSE buildPc' = next /\ UNCHANGED buildRet
  /\ UNCHANGED <<pvars, buildI, lastTextPost, postAtts>>

\* AddUserEntries: one Add per user.
BuildUser(write) ==
  /\ buildPc = "users"
  /\ buildI < MaxUsers
  /\ AddEntry("user", write)
  /\ addFailed' = (addFailed \/ AddResult("user", write).err # NoError)
  /\ IF ReturnsError("user", AddResult("user", write))
     THEN buildPc' = "done" /\ buildRet' = AddResult("user", write).err.kind /\ UNCHANGED buildI
     ELSE buildI' = buildI + 1 /\ UNCHANGED <<buildPc, buildRet>>
  /\ UNCHANGED <<pvars, lastTextPost, postAtts>>

\* AddUserEntries returns, and AddChatPost collects and sorts the events: an
\* event that cannot be read makes it return the error.
BuildCollect(readable) ==
  /\ buildPc = "users"
  /\ buildI' = 0
  /\ IF readable
     THEN buildPc' = "posts" /\ UNCHANGED buildRet
     ELSE buildPc' = "done" /\ buildRet' = "Event"
  /\ UNCHANGED <<pvars, lastIndex, out, encErr, records, addRet, lastTextPost, postAtts,
                 addFailed>>

\* One iteration of AddChatPost's loop, for the event e.
BuildEvent(e, write) ==
  /\ buildPc = "posts"
  /\ buildI < MaxEvents
  /\ buildI' = buildI + 1
  /\ UNCHANGED pvars
  /\ LET moved == IF e.user = Unmapped THEN 0 ELSE Moved(e, lastTextPost)
         last == [lastTextPost EXCEPT !.atts = @ + moved]
         rest == e.atts - moved
     IN IF e.user = Unmapped \/ (~e.text /\ rest = 0)
        THEN /\ lastTextPost' = last
             /\ UNCHANGED <<lastIndex, out, encErr, records, addRet, buildPc, buildRet,
                            postAtts, addFailed>>
        ELSE /\ AddEntry("post", write)
             /\ addFailed' = (addFailed \/ AddResult("post", write).err # NoError)
             /\ postAtts' = Append(postAtts, rest)
             /\ lastTextPost' = IF e.text
                                THEN [user |-> e.user, atts |-> rest, encoded |-> rest,
                                      written |-> AddResult("post", write).err = NoError]
                                ELSE last
             /\ IF ReturnsError("post", AddResult("post", write))
                THEN buildPc' = "done" /\ buildRet' = AddResult("post", write).err.kind
                ELSE UNCHANGED <<buildPc, buildRet>>

\* AddChatPost returns nil, and so does Build.
BuildReturn ==
  /\ buildPc = "posts"
  /\ buildPc' = "done"
  /\ buildRet' = "nil"
  /\ UNCHANGED <<pvars, lastIndex, out, encErr, records, addRet, buildI, lastTextPost,
                 postAtts, addFailed>>

BNext ==
  \/ \E allMapped \in BOOLEAN : BuildCall(allMapped)
  \/ \E write \in WriteOutcomes : BuildAdd("version", "team", write)
  \/ \E write \in WriteOutcomes : BuildAdd("team", "channel", write)
  \/ \E write \in WriteOutcomes : BuildAdd("channel", "users", write)
  \/ \E write \in WriteOutcomes : BuildUser(write)
  \/ \E readable \in BOOLEAN : BuildCollect(readable)
  \/ \E e \in Events, write \in WriteOutcomes : BuildEvent(e, write)
  \/ BuildReturn

----------------------------------------------------------------------------
(* The specifications: the attachment pipeline, and the export writer. *)

Init == PInit /\ WInit

Next == PNext

Spec == Init /\ [][Next]_vars

WriterInit == WInit /\ PInit /\ BasePath = BaseDir /\ ~Overwrite /\ DOMAIN files = {ForeignPath}

WriterNext == WNext

WriterSpec == WriterInit /\ [][WriterNext]_vars

MapperInit == MInit /\ WInit

MapperNext == MNext

MapperSpec == MapperInit /\ [][MapperNext]_vars

SnapshotInit == SInit /\ WInit

SnapshotNext == SNext

SnapshotSpec == SnapshotInit /\ [][SnapshotNext]_vars

ScenarioSpecInit == ScenarioInit /\ WInit

ScenarioNext == ScenarioPNext

ScenarioSpec == ScenarioSpecInit /\ [][ScenarioNext]_vars

RetrySpecInit == RetryInit /\ WInit

RetryNext == RetryPNext

RetrySpec == RetrySpecInit /\ [][RetryNext]_vars

\* The scheduling of the Go runtime: a goroutine that can run does run, be it
\* a fetch goroutine or the caller at a send that has room.
Fairness ==
  /\ WF_vars(\E w \in BagToSet(workers) : Fetch(w) \/ Open(w) \/ Copy(w) \/ Close(w))
  /\ WF_vars(AddAcquire)
  /\ WF_vars(WaitAcquire)

FairSpec == RetrySpec /\ Fairness

ResumeSpecInit == ResumeInit /\ WInit

ResumeNext == ResumePNext

ResumeSpec == ResumeSpecInit /\ [][ResumeNext]_vars

BuildInit == WriterInit

BuildNext == BNext

BuildSpec == BuildInit /\ [][BuildNext]_vars

----------------------------------------------------------------------------
(* Properties of the download pipeline (Spec). *)

\* The files at store destination paths: in the base directory, named by the
\* digest of a key.
Destinations ==
  {p \in DOMAIN files : Len(p) >= 2 /\ p[1] = BasePath /\ \E k \in Keys : p[2] = HashForKey(k)}

KeyAt(p) == CHOOSE k \in Keys : p[2] = HashForKey(k)

\* C1: in every reachable state of the download pipeline the file at a store
\* destination path is absent or holds the complete response body; a copy
\* that fails part-way leaves no file at the destination.
C1_DestinationAbsentOrComplete ==
  \A p \in Destinations : files[p].data = Body(KeyAt(p))

\* C3: the number of fetch goroutines in flight (started by Add and not yet
\* finished) never exceeds the concurrency limit.
C3_InFlightBounded == InFlight <= Concurrency

\* The limit is reached, and a further Add is blocked in Acquire.
C3_Witness == InFlight = Concurrency /\ mainPc = "acquire" /\ added = MaxAdds

\* C6: Wait returns only in a state where every fetch goroutine started by an
\* earlier Add has finished and released its slot: when Wait returns, none is
\* in flight.
C6_WaitReturnsIdle ==
  [][(mainPc = "wait" /\ mainPc' = "idle") => (InFlight' = 0 /\ sem' = Concurrency)]_vars

\* Wait has returned after goroutines were started and fetched.
C6_Witness ==
  /\ mainPc = "idle"
  /\ sem = Concurrency
  /\ InFlight = 0
  /\ added > 1
  /\ \A k \in Keys : fetched[k] > 0

\* The goroutines in flight for a key that hold its content: their request
\* was answered with it.
ContentHolders(k) ==
  LET holders == {w \in BagToSet(workers) : w.key = k /\ w.pc # "fetch"}
  IN BagCardinality([w \in holders |-> workers[w]])

\* C7: the same key is never downloaded more than once: for any sequence of
\* Add calls, two for the same key with the first still in flight included,
\* at most one request for the key's content is made and answered, so that
\* no two goroutines ever hold the content of one key.
C7_AtMostOneFetchPerKey == \A k \in Keys : ContentHolders(k) <= 1

----------------------------------------------------------------------------
(* Properties of the Mapper and its Writers (MapperSpec). *)

\* C2: on a Mapper with a base path, whatever the interleaving of callers, at
\* most one OpenWriter call for a key ever returns a Writer, and every
\* OpenWriter call for the key after that one returns Exists and leaves the
\* files as they are.
C2_OneWriterPerKey ==
  [][\A k \in Keys :
       /\ opened'[k] <= 1
       /\ (opened[k] = 1 /\ ret' # ret /\ ret'.op = "OpenWriter" /\ ret'.key = k)
            => (ret'.val = "Exists" /\ files' = files /\ workers' = workers)]_vars

\* A second caller was answered Exists for a key whose Writer the first
\* caller still holds.
C2_Witness ==
  /\ BasePath # ""
  /\ \E c \in BagToSet(workers) :
       /\ c.key = ret.key
       /\ opened[c.key] = 1
       /\ Len(c.sent) > 0
  /\ ret.op = "OpenWriter"
  /\ ret.val = "Exists"

\* C8: after OpenWriter(k, mt) succeeded, data was written to the Writer and
\* Close returned nil, GetPath(k) is the Writer's destination path, a file
\* exists at that path and its content is exactly the bytes written.
C8_ClosedWriterIsMapped ==
  (ret.op = "Close" /\ ret.val = "nil" /\ ret.data # <<>>)
    => /\ GetPath(attachments, ret.key) = ret.path
       /\ FileExists(files, ret.path)
       /\ files[ret.path].data = ret.data

\* C9: while a Writer has been created and written to and Close has not been
\* called, no file is at its destination path because of it: what it has made
\* is the temporary file, whose name starts with "tmp-", in the destination's
\* directory.
C9_NothingAtDestinationBeforeClose ==
  \A c \in BagToSet(workers) :
    /\ FileExists(files, c.w.tempFile)
    /\ files[c.w.tempFile].data = c.sent
    /\ Head(Base(c.w.tempFile)) = "tmp-"
    /\ Dir(c.w.tempFile) = Dir(c.w.destPath)
    /\ FileExists(files, c.w.destPath) => files[c.w.destPath].src = "prev"

\* A Writer that was written to and not closed, with nothing at its
\* destination.
C9_Witness ==
  \E c \in BagToSet(workers) :
    /\ Len(c.sent) = BodyLen
    /\ ~FileExists(files, c.w.destPath)

\* C10: once a key has a path in the Mapper the path never changes: no
\* OpenWriter, ScanPathForKey or LoadFromJSON call replaces it.
C10_PathNeverChanges ==
  [][\A k \in DOMAIN attachments :
       k \in DOMAIN attachments' /\ attachments'[k] = attachments[k]]_vars

----------------------------------------------------------------------------
(* Properties of the BulkImportWriter (WriterSpec). *)

IsComplete(line) == line.complete

\* The lines written to the stream, and their ordinals in containerOrder.
Written(stream) == SelectSeq(stream, IsComplete)

Ordinals == [i \in 1..Len(Written(out)) |-> containerOrderMap(Written(out)[i].type)]

NonDecreasing(s) == \A i, j \in 1..Len(s) : i <= j => s[i] <= s[j]

\* The ordering error for an entry of type t: it names t and the type at
\* lastIndex.
OrderError(t, last) == [kind |-> "order", first |-> t, second |-> containerOrder[last + 1]]

\* An Add of an entry whose ordinal is below lastIndex: the ordering error,
\* no line, lastIndex as it was.
AddRejects ==
  /\ addRet'.err = OrderError(addRet'.type, lastIndex)
  /\ out' = out
  /\ lastIndex' = lastIndex

\* C4 as stated: Add of an entry whose ordinal is below lastIndex returns an
\* ordering error naming the two types, appends no line and leaves lastIndex;
\* Add of an entry whose ordinal is >= lastIndex sets lastIndex to the ordinal
\* and appends exactly one line.
C4_AddAsStated ==
  [][records' # records =>
       IF containerOrderMap(addRet'.type) < lastIndex
       THEN AddRejects
       ELSE /\ lastIndex' = containerOrderMap(addRet'.type)
            /\ out' = Append(out, [type |-> addRet'.type, complete |-> TRUE])]_vars

\* C4, amended: Add of an entry whose ordinal is below lastIndex returns an
\* ordering error naming the two types, appends no line and leaves lastIndex;
\* Add of an entry whose ordinal is >= lastIndex sets lastIndex to the ordinal
\* and either returns nil, having appended exactly one line, or returns the
\* error of the encoder, having appended no complete line.
C4_AddOrWriteError ==
  [][records' # records =>
       IF containerOrderMap(addRet'.type) < lastIndex
       THEN AddRejects
       ELSE /\ lastIndex' = containerOrderMap(addRet'.type)
            /\ \/ /\ addRet'.err = NoError
                  /\ out' = Append(out, [type |-> addRet'.type, complete |-> TRUE])
               \/ /\ addRet'.err.kind = "write"
                  /\ Written(out') = Written(out)]_vars

\* A user was added after a post was written: the ordering error, and the
\* post is still the last line.
C4_Witness ==
  /\ addRet = [type |-> "user", err |-> OrderError("user", containerOrderMap("post"))]
  /\ out # <<>>
  /\ out[Len(out)] = [type |-> "post", complete |-> TRUE]

\* C5 as stated: after any sequence of Add calls the ordinals of the lines
\* written are non-decreasing and lastIndex is the ordinal of the last line
\* written.
C5_OrderedAsStated ==
  /\ NonDecreasing(Ordinals)
  /\ Len(Ordinals) > 0 => lastIndex = Ordinals[Len(Ordinals)]

\* C5, amended: after any sequence of Add calls the ordinals of the lines
\* written are non-decreasing and none is above lastIndex; lastIndex is the
\* ordinal of the last line written as long as no Add failed in writing.
C5_OrderedUpToLastIndex ==
  /\ NonDecreasing(Ordinals)
  /\ \A i \in 1..Len(Ordinals) : Ordinals[i] <= lastIndex
  /\ (Len(Ordinals) > 0 /\ ~encErr) => lastIndex = Ordinals[Len(Ordinals)]

\* Lines of two types were written, and an Add of an entry of a later type
\* failed in writing.
C5_Witness ==
  /\ Len(Ordinals) >= 2
  /\ Ordinals[1] < Ordinals[Len(Ordinals)]
  /\ encErr
  /\ lastIndex > Ordinals[Len(Ordinals)]

----------------------------------------------------------------------------
(* Properties of ImageDownloader.Add and of the goroutines' steps (Spec). *)

\* The files of the base directory whose name begins with the key's digest.
Found(key) == {p \in DOMAIN files : Len(p) >= 2 /\ p[1] = BasePath /\ p[2] = HashForKey(key)}

\* The step is the scan of an Add, whose item is mainItem'.
AddCalled == added' # added

\* C11: for a key that is unmapped and whose digest-named file (with any or no
\* extension) exists under the base path from an earlier run, ScanPathForKey
\* returns that file's path and records the mapping, and Add for the key
\* returns false without acquiring a slot or fetching.
C11_ExistingFileIsFound ==
  [][(AddCalled /\ ~Mapped(attachments, mainItem'.key) /\ Found(mainItem'.key) # {})
       => /\ Mapped(attachments', mainItem'.key)
          /\ attachments'[mainItem'.key] \in Found(mainItem'.key)
          /\ ret' = [Return("Add", mainItem'.key, "false") EXCEPT !.path = attachments'[mainItem'.key]]
          /\ mainPc' = "idle"
          /\ sem' = sem
          /\ workers' = workers
          /\ fetched' = fetched]_vars

----------------------------------------------------------------------------
(* Properties of the snapshot (SnapshotSpec). *)

\* The entries of the index whose file exists.
LiveEntries ==
  [k \in {j \in DOMAIN attachments : FileExists(files, attachments[j])} |-> attachments[k]]

\* C12: SaveToJSON on a Mapper followed by LoadFromJSON of the document into a
\* new Mapper gives exactly the original entries whose file exists: entries
\* whose file does not exist are dropped, every other entry is reproduced
\* unchanged.
C12_RoundTrip ==
  (snapshot.ok /\ fresh.err = "nil") => fresh.index = LiveEntries

----------------------------------------------------------------------------
(* Properties of ImageDownloader.Add's result (Spec). *)

\* What ScanPathForKey answers for the key in the state before the step.
ScanOf(key) == ScanPathForKey(attachments, files, BasePath, key)

\* The Add of mainItem returns in this step from behind d.sem.Acquire().
AddReturnsTrue == mainPc = "acquire" /\ mainPc' # "acquire"

\* C13: Add returns false, acquires no slot and starts no goroutine when
\* ScanPathForKey resolves the key or the item has no candidate URL; in every
\* other case, a scan that fails otherwise than with NotFound included, it
\* goes on to acquire one slot and start exactly one goroutine for the item,
\* and returns true.
C13_AddResult ==
  [][/\ AddCalled =>
          IF ScanOf(mainItem'.key).err = "nil" \/ mainItem'.urls = <<>>
          THEN /\ ret'.op = "Add" /\ ret'.key = mainItem'.key /\ ret'.val = "false"
               /\ mainPc' = "idle"
               /\ sem' = sem
               /\ workers' = workers
          ELSE /\ mainPc' = "acquire"
               /\ ret' = ret
               /\ sem' = sem
               /\ workers' = workers
     /\ AddReturnsTrue =>
          /\ ret' = Return("Add", mainItem.key, "true")
          /\ sem' = sem + 1
          /\ BagCardinality(workers') = BagCardinality(workers) + 1
          /\ workers' = workers (+) SetToBag({[pc |-> "fetch", key |-> mainItem.key, urls |-> mainItem.urls,
                                               mt |-> NoType, w |-> NoWriter]})]_vars

\* Add has returned true for a key whose scan failed with the pattern error,
\* the key's file of an earlier run being in the directory.
C13_Witness ==
  /\ ret = Return("Add", "k1", "true")
  /\ BasePath = BadDir
  /\ DestPath(BadDir, "k1", Jpeg) \in DOMAIN files
  /\ \E w \in BagToSet(workers) : w.key = "k1" /\ w.pc = "fetch"

----------------------------------------------------------------------------
(* Properties of the goroutines' steps (Spec). *)

\* The goroutine w takes a step: one goroutine in its state is gone from the
\* bag.
Steps(w) == w \in BagToSet(workers) /\ CopiesIn(w, workers') < CopiesIn(w, workers)

\* The URLs whose every final response is an error, a status other than 200,
\* or a 200 of media type text/html.
Unusable(u) ==
  \A resp \in Serve(u, 0) : ~retryPolicy(resp) /\ (resp.err # "none" \/ resp.status # 200 \/ resp.mt = Html)

\* C14: a candidate URL whose final response is not a 200, or is a 200 of
\* media type text/html, fails that URL only: the goroutine leaves the index
\* and the files as they are and goes on to the next candidate URL (it
\* returns, releasing its slot, when there is none).
C14_FailedURLOnly ==
  [][\A w \in BagToSet(workers) :
       (w.pc = "fetch" /\ Unusable(Head(w.urls)) /\ Steps(w))
         => /\ attachments' = attachments
            /\ files' = files
            /\ IF Len(w.urls) > 1
               THEN /\ workers' = (workers (-) SetToBag({w}))
                                    (+) SetToBag({[w EXCEPT !.urls = Tail(w.urls)]})
                    /\ sem' = sem
               ELSE /\ workers' = workers (-) SetToBag({w})
                    /\ sem' = sem - 1]_vars

\* The goroutine of k1 is at its second candidate URL after the first one
\* failed, with no entry for k1 and no file of k1 in the base directory.
C14_Witness ==
  /\ \E w \in BagToSet(workers) : w.key = "k1" /\ w.pc = "fetch" /\ w.urls = <<"ok">>
  /\ ~Mapped(attachments, "k1")
  /\ Found("k1") = {}
  /\ BasePath = BaseDir

\* C15: when OpenWriter returns Exists in a goroutine, the attempt counts as
\* a success: the goroutine writes nothing to the disk, tries no further
\* candidate URL although it may have some left, and returns, releasing its
\* slot.
C15_ExistsIsSuccess ==
  [][\A w \in BagToSet(workers) :
       (w.pc = "open" /\ Steps(w) /\ ret'.op = "OpenWriter" /\ ret'.val = "Exists")
         => /\ ret'.key = w.key
            /\ files' = files
            /\ workers' = workers (-) SetToBag({w})
            /\ sem' = sem - 1]_vars

\* OpenWriter has answered Exists to a goroutine of k2 that was at the first
\* of its two candidate URLs: k2 was requested twice, and the goroutine that
\* holds k2's Writer is at its first URL too.
C15_Witness ==
  /\ ret = [Return("OpenWriter", "k2", "Exists") EXCEPT !.loaded = TRUE]
  /\ fetched["k2"] = 2
  /\ opened["k2"] = 1
  /\ \A w \in BagToSet(workers) : w.key = "k2" => w.pc = "copy" /\ Len(w.urls) = 2
  /\ \E w \in BagToSet(workers) : w.key = "k2" /\ CopiesIn(w, workers) = 1

----------------------------------------------------------------------------
(* Properties of the three-item run (ScenarioSpec). *)

\* The key was stored exactly once: one Writer was opened for it, the index
\* maps it to its destination, the file there is the whole body, and no other
\* file of the base directory bears the key's digest.
StoredOnce(key) ==
  /\ opened[key] = 1
  /\ Mapped(attachments, key)
  /\ attachments[key] = DestPath(BaseDir, key, Jpeg)
  /\ Found(key) = {attachments[key]}
  /\ files[attachments[key]].data = Body(key)

\* C16: three keys are submitted, two with reachable URLs, one of which
\* answers 429 once and 200 after that, and one whose only URL never gives a
\* usable response. Once Wait has returned, the 429 key is stored exactly
\* once and the failing key has no entry in the index; the final snapshot has
\* exactly two entries, neither of them the failing key's.
C16_EndToEnd ==
  /\ waited =>
       /\ StoredOnce("k2")
       /\ fetched["k2"] = 1
       /\ throttle = 0
       /\ ~Mapped(attachments, "k3")
  /\ mainPc = "exit" =>
       /\ snapshot.exists /\ snapshot.ok
       /\ "k3" \notin DOMAIN snapshot.entries
       /\ Cardinality(DOMAIN snapshot.entries) = 2
       /\ \A k \in DOMAIN snapshot.entries : snapshot.entries[k] = DestPath(BaseDir, k, Jpeg)

\* The run has ended: all three items were submitted, the 429 was answered
\* and retried, and the final snapshot is written.
C16_Witness ==
  /\ mainPc = "exit"
  /\ added = 3
  /\ throttle = 0
  /\ snapshot.ok
  /\ DOMAIN snapshot.entries = {"k1", "k2"}

----------------------------------------------------------------------------
(* Properties of the order check of BulkImportWriter.Add (WriterSpec). *)

\* C17: the order check is monotonic, not contiguous. On a new
\* BulkImportWriter, whose lastIndex is the ordinal of version, the first
\* entry passes the check whatever its type; an entry of the type of the
\* entry before it passes; and an entry passes when its ordinal is not below
\* lastIndex, however many types it skips (a post directly after a team, with
\* no user between). An entry that passes moves lastIndex to its ordinal and,
\* on a stream that takes the write, becomes the next line.
C17_MonotonicNotContiguous ==
  [][records' # records =>
       LET idx == containerOrderMap(addRet'.type)
       IN /\ records = 0 => lastIndex = containerOrderMap("version") /\ idx >= lastIndex
          /\ idx >= lastIndex =>
               /\ addRet'.err.kind # "order"
               /\ lastIndex' = idx
               /\ ~encErr' => /\ addRet'.err = NoError
                              /\ out' = Append(out, [type |-> addRet'.type, complete |-> TRUE])]_vars

\* The first entry was a team, and a post directly after it was written.
C17_Witness ==
  /\ out = <<[type |-> "team", complete |-> TRUE], [type |-> "post", complete |-> TRUE]>>
  /\ addRet = [type |-> "post", err |-> NoError]
  /\ lastIndex = containerOrderMap("post")

----------------------------------------------------------------------------
(* Properties of OpenWriter and Close on an existing destination            *)
(* (MapperSpec).                                                            *)

\* The step is an OpenWriter call, with Overwrite off, whose destination
\* path has a file.
OpenWriterOnExisting ==
  /\ ret' # ret
  /\ ret'.op = "OpenWriter"
  /\ ~Overwrite
  /\ FileExists(files, ret'.path)

\* C18 as stated: with Overwrite off, OpenWriter for a key whose destination
\* file exists returns Exists, creates no temporary file and leaves the file
\* as it is.
C18_ExistsAsStated ==
  [][OpenWriterOnExisting => (ret'.val = "Exists" /\ files' = files)]_vars

\* C18, amended: with Overwrite off, OpenWriter for a key whose destination
\* file exists returns Exists, or the error of os.Stat when os.Stat fails;
\* either way it creates no temporary file, leaves the file as it is and
\* hands out no Writer.
C18_ExistsOrStatError ==
  [][OpenWriterOnExisting =>
       /\ ret'.val \in {"Exists", "StatError"}
       /\ files' = files
       /\ workers' = workers]_vars

\* OpenWriter has answered Exists for a key that was not in the index and
\* whose destination holds the file of an earlier run.
C18_Witness ==
  /\ ret.op = "OpenWriter"
  /\ ret.val = "Exists"
  /\ ~ret.loaded
  /\ ~Overwrite
  /\ FileExists(files, ret.path)
  /\ files[ret.path] = PrevFile("k1")
  /\ \A p \in DOMAIN files : Head(Base(p)) # "tmp-"

\* The step is the Close of the caller c's Writer.
CloseStep(c) == c \in BagToSet(workers) /\ workers' = workers (-) SetToBag({c})

\* The file at path p is in fs2 what it is in fs1: absent in both, or the
\* same file.
SameAt(fs1, fs2, p) ==
  /\ FileExists(fs1, p) <=> FileExists(fs2, p)
  /\ FileExists(fs1, p) => fs1[p] = fs2[p]

\* Close returned nil: the destination holds the bytes written and nothing is
\* under the temporary name.
Published(c) ==
  /\ FileExists(files', c.w.destPath)
  /\ files'[c.w.destPath].data = c.sent
  /\ ~FileExists(files', c.w.tempFile)

\* C19 as stated: Close publishes only on success. When the close of the
\* temporary file or the rename fails, Close returns the error, the temporary
\* file is removed and the destination is as it was before; when both succeed
\* the destination holds the bytes written and nothing is left under the
\* temporary name.
C19_CloseAsStated ==
  [][\A c \in BagToSet(workers) :
       CloseStep(c) =>
         IF ret'.val = "nil"
         THEN Published(c)
         ELSE /\ ret'.val \in {"closeErr", "renameErr"}
              /\ ~FileExists(files', c.w.tempFile)
              /\ SameAt(files, files', c.w.destPath)]_vars

\* C19, amended: when the close of the temporary file or the rename fails,
\* Close returns the error, the destination is as it was before, and the
\* temporary file is removed unless os.Remove fails too, in which case it
\* stays as it was; when both succeed the destination holds the bytes written
\* and nothing is left under the temporary name.
C19_CloseOrLeftover ==
  [][\A c \in BagToSet(workers) :
       CloseStep(c) =>
         IF ret'.val = "nil"
         THEN Published(c)
         ELSE /\ ret'.val \in {"closeErr", "renameErr"}
              /\ files' \in {files, RemoveFile(files, c.w.tempFile)}
              /\ SameAt(files, files', c.w.destPath)]_vars

\* A Close after a whole body was written has failed in the rename: the file
\* of an earlier run is still at the destination and the temporary file is
\* gone.
C19_Witness ==
  /\ ret.op = "Close"
  /\ ret.val = "renameErr"
  /\ Len(ret.data) = BodyLen
  /\ FileExists(files, ret.path)
  /\ files[ret.path] = PrevFile("k1")
  /\ ~FileExists(files, TempName(ret.path, "001"))

----------------------------------------------------------------------------
(* Properties of the final snapshot of the run (Spec). *)

\* The keys that have a file a Writer of this run put at a destination of the
\* base directory.
StoredKeys == {k \in AllKeys : \E p \in Found(k) : files[p].src = "writer"}

\* The step is the flushAttachments call at the end of Execute.
FinalFlushStep == mainPc = "idle" /\ mainPc' = "exit"

\* C20: the final snapshot of the run is written only after Wait has
\* returned, when no goroutine is left; the document written has an entry
\* for every key whose file a goroutine started in the run has stored, and
\* that stays so once the command has ended.
C20_FinalSnapshotAfterWait ==
  [][/\ snapshot' # snapshot => FinalFlushStep
     /\ FinalFlushStep =>
          /\ waited
          /\ InFlight = 0
          /\ snapshot'.ok => StoredKeys \subseteq DOMAIN snapshot'.entries
     /\ (mainPc' = "exit" /\ snapshot'.ok) =>
          {k \in AllKeys : \E p \in DOMAIN files' :
             Len(p) >= 2 /\ p[1] = BasePath /\ p[2] = HashForKey(k) /\ files'[p].src = "writer"}
            \subseteq DOMAIN snapshot'.entries]_vars

\* The command has ended with the snapshot written, and two keys have files
\* that goroutines of the run stored.
C20_Witness ==
  /\ mainPc = "exit"
  /\ waited
  /\ snapshot.ok
  /\ StoredKeys = {"k1", "k2"}
  /\ DOMAIN snapshot.entries = {"k1", "k2"}

----------------------------------------------------------------------------
(* Properties of the files written at their final path (Spec). *)

\* C21: every file the program creates goes through the Writer that writes a
\* temporary file and renames it, so an interruption or error while the
\* snapshot or the export is written never leaves a partly written file at
\* its final path: what is at the snapshot's path is nothing or a whole
\* document.
C21_NoPartialSnapshot == snapshot.exists => snapshot.ok


----------------------------------------------------------------------------
(* Properties of BulkImportGenerator.Build (BuildSpec). *)

\* C22: an error that BulkImportWriter.Add returns during Build (an ordering
\* violation, or a failure to encode or write) is returned by Build to its
\* caller: Build does not return nil after an Add call of its own has failed.
C22_AddErrorPropagates == (buildPc = "done" /\ buildRet = "nil") => ~addFailed

\* C23: a record is not mutated after it was passed to Add: the Post that
\* AddChatPost holds as the last text post, once Add has written it, has the
\* attachments that its line in the output encodes.
C23_PostNotModifiedAfterAdd ==
  lastTextPost.written => lastTextPost.atts = lastTextPost.encoded


----------------------------------------------------------------------------
(* Properties of the Mapper's index under its operations (MapperSpec). *)

\* C24: entries are only added to the Mapper's index, never evicted: over
\* every step of OpenWriter, ScanPathForKey, LoadFromJSON, SaveToJSON, GetPath
\* and Mapped, a key that was mapped before the step is mapped after it.
C24_NeverEvicted == [][DOMAIN attachments \subseteq DOMAIN attachments']_vars

\* A LoadFromJSON of a document that has no entry to store for k2 has
\* returned, and k2, which was mapped before the load, is still mapped.
C24_Witness ==
  /\ ret.op = "LoadFromJSON"
  /\ ret.val = "nil"
  /\ DOMAIN attachments = Keys
  /\ attachments["k1"] = ForeignPath
  /\ attachments["k2"] = DestPath(BaseDir, "k2", Jpeg)

\* What C25 says of a LoadFromJSON step that loads doc.
LoadAsSpecified(doc) ==
  LET exists(k) == FileExists(files, DecodeString(doc.entries[k]))
      stored(k) == k \in DOMAIN attachments' /\ attachments'[k] = DecodeString(doc.entries[k])
      kept(k) == /\ (k \in DOMAIN attachments') = (k \in DOMAIN attachments)
                 /\ k \in DOMAIN attachments => attachments'[k] = attachments[k]
  IN /\ ~doc.ok => (ret'.val = "error" /\ attachments' = attachments)
     /\ doc.ok =>
          /\ \A k \in AllKeys \ DOMAIN doc.entries : kept(k)
          /\ \A k \in DOMAIN doc.entries : IF exists(k) THEN stored(k) \/ kept(k) ELSE kept(k)
          /\ ret'.val = "nil" => \A k \in DOMAIN doc.entries : exists(k) => stored(k)
          /\ ret'.val = "error" => faults # "none"

\* C25: LoadFromJSON of a malformed document returns an error and leaves the
\* index unchanged; an entry whose path does not exist is skipped and the
\* loading goes on, so that a load that returns nil has stored every entry
\* whose path exists and no other; and the load of a well-formed document
\* returns an error only when an os.Stat fails otherwise than with
\* does-not-exist.
C25_LoadFromJSON ==
  [][ret'.op = "LoadFromJSON" =>
       \A doc \in Docs : LoadFromJSON(doc, ret'.val) => LoadAsSpecified(doc)]_vars

\* A load has skipped k2, whose path does not exist, stored k1 and returned nil.
C25_Witness ==
  /\ ret.op = "LoadFromJSON"
  /\ ret.val = "nil"
  /\ DOMAIN attachments = {"k1"}
  /\ attachments["k1"] = ForeignPath


----------------------------------------------------------------------------
(* Properties of the retries (RetrySpec). *)

\* The outcomes C26 calls transient: a network error, a status the default
\* policy retries, or a 429.
TransientOutcome(resp) ==
  \/ resp.err = "transient"
  \/ /\ resp.err = "none"
     /\ resp.status = 0 \/ (resp.status >= 500 /\ resp.status # 501) \/ resp.status = 429

\* The goroutines whose request can only have a transient outcome now.
AtTransient ==
  {w \in BagToSet(workers) :
     w.pc = "fetch" /\ \A resp \in Serve(Head(w.urls), throttle) : TransientOutcome(resp)}

\* C26: a transient outcome on a candidate URL (a network error, a status the
\* default policy retries, or a 429) has the same URL requested again and
\* does not count as a failure: a goroutine whose request can only have a
\* transient outcome stays at that URL, and the step in which a request is
\* answered so changes nothing but the count of requests the server has
\* seen. No number of retries makes the goroutine give up: it goes on to the
\* next candidate or to storing only when an outcome is not transient.
C26_TransientRetried ==
  [][/\ \A w \in AtTransient : CopiesIn(w, workers') >= CopiesIn(w, workers)
     /\ throttle' # throttle =>
          /\ throttle' = throttle - 1
          /\ workers' = workers /\ sem' = sem /\ fetched' = fetched
          /\ attachments' = attachments /\ files' = files]_vars

\* The only item added is k1's: its goroutine has had every transient outcome
\* the server had to give at the first URL and a 404 after them, and has
\* stored the content from the second.
C26_Witness ==
  /\ throttle = 0
  /\ added = 1
  /\ mainItem.key = "k1"
  /\ workers = EmptyBag
  /\ DestPath(BaseDir, "k1", Jpeg) \in DOMAIN files


----------------------------------------------------------------------------
(* Properties of a goroutine's pass over the candidate URLs (Spec). *)

\* The goroutine w ends in this step.
Exits(w) ==
  /\ BagCardinality(workers') < BagCardinality(workers)
  /\ CopiesIn(w, workers') < CopiesIn(w, workers)

\* A file of the base directory named by the key's digest holds the whole
\* content.
StoredIn(fs, key) ==
  \E p \in DOMAIN fs :
    Len(p) >= 2 /\ p[1] = BasePath /\ p[2] = HashForKey(key) /\ fs[p].data = Body(key)

\* C27: the goroutine makes one pass over the candidate URLs, in order, and
\* stops at the first success; every scheduled item ends as Stored or as
\* FailedAllCandidates: when its goroutine ends, the content of the key is
\* stored, or the goroutine has just had its last candidate fail.
C27_StoredOrAllFailed ==
  [][\A w \in BagToSet(workers) :
       Exits(w) =>
         \/ StoredIn(files', w.key)
         \/ Len(w.urls) = 1 /\ ~(w.pc = "open" /\ ret'.val = "Exists")]_vars


----------------------------------------------------------------------------
(* Properties of the semaphore under fair scheduling (FairSpec). *)

\* The Add that was waiting for a slot has started its goroutine and
\* returned true.
AddReturned ==
  /\ mainPc = "idle"
  /\ ret = Return("Add", mainItem.key, "true")
  /\ BagIn(Worker(mainItem), workers)

----------------------------------------------------------------------------
(* Properties of the semaphore after Wait (Spec). *)

----------------------------------------------------------------------------
(* Properties of the slots the goroutines hold (Spec). *)

\* C31: slots never leak. Before Wait is called the number of tokens in the
\* semaphore equals the number of fetch goroutines in flight; a goroutine
\* that ends, on whatever path, gives back one token and no step gives back
\* more; so with no goroutine left every slot is free.
C31_SlotsNeverLeak ==
  /\ []((~waited /\ mainPc # "wait") => sem = InFlight)
  /\ [][/\ (\E w \in BagToSet(workers) : Exits(w)) => sem' = sem - 1
        /\ sem' < sem => InFlight' = InFlight - 1]_vars

\* Two goroutines were started and both have ended, one of them after
\* OpenWriter returned Exists: no token is left in the semaphore.
C31_Witness ==
  /\ ~waited
  /\ mainPc = "idle"
  /\ added = 2
  /\ fetched["k2"] = 2
  /\ opened["k2"] = 1
  /\ workers = EmptyBag
  /\ sem = 0


----------------------------------------------------------------------------
(* Properties of the claim OpenWriter makes on a key (MapperSpec). *)

\* The last call was an OpenWriter that recorded the key and then failed:
\* the destination exists, os.Stat failed, or the temporary file could not
\* be created.
FailedAfterClaim ==
  /\ ret.op = "OpenWriter"
  /\ ~ret.loaded
  /\ ret.val \in {"Exists", "StatError", "Error"}

\* C32: OpenWriter records the key before it touches the file system and
\* never undoes that: when it fails after the claim the key is mapped to the
\* path it computed and stays mapped to it, so that GetPath returns that
\* path from then on, whether a file is there or not.
C32_ClaimStays ==
  /\ [](FailedAfterClaim => GetPath(attachments, ret.key) = ret.path)
  /\ [][FailedAfterClaim => GetPath(attachments', ret.key) = ret.path]_vars


----------------------------------------------------------------------------
(* Properties of a key once a goroutine has claimed it (Spec). *)

\* C33: once a goroutine has claimed a key no other candidate URL can be
\* stored for it. One Writer at most is opened for a key; an OpenWriter for a
\* key that has had its Writer returns Exists, and the goroutine ends as
\* after a success and writes nothing, also when the copy or the Close of
\* that Writer had failed; the key remains in the index and is in the final
\* snapshot, whether a complete download of it took place or not.
C33_ClaimBlocksCandidates ==
  /\ [](\A k \in Keys : opened[k] <= 1 /\ (opened[k] = 1 => Mapped(attachments, k)))
  /\ [][\A w \in BagToSet(workers) :
          (w.pc = "open" /\ Steps(w) /\ opened[w.key] = 1)
            => (ret'.val = "Exists" /\ Exits(w) /\ files' = files)]_vars
  /\ [][(FinalFlushStep /\ snapshot'.exists /\ snapshot'.ok)
          => \A k \in Keys : opened[k] = 1 => k \in DOMAIN snapshot'.entries]_vars

\* The run of one item has ended: its goroutine opened a Writer at the first
\* candidate, the attempt failed, the second candidate was answered Exists,
\* and the final snapshot names the key although no file holds its content.
C33_Witness ==
  /\ mainPc = "exit"
  /\ added = 1
  /\ fetched["k2"] = 2
  /\ opened["k2"] = 1
  /\ ret = [Return("OpenWriter", "k2", "Exists") EXCEPT !.loaded = TRUE]
  /\ snapshot.exists /\ snapshot.ok
  /\ "k2" \in DOMAIN snapshot.entries
  /\ ~StoredIn(files, "k2")


----------------------------------------------------------------------------
(* Properties of the scan and the temporary files (RetrySpec). *)

\* The temporary files: the one a killed run left, and those of the Writers
\* the goroutines hold.
TempFiles ==
  {LeftoverTemp} \cup {w.w.tempFile : w \in {v \in BagToSet(workers) : v.w # NoWriter}}

\* C34: ScanPathForKey never maps a key to a temporary file. The name of a
\* temporary file begins with "tmp-" and the scan's pattern matches names
\* that begin with the key's digest, so the index never names the file of an
\* unfinished write, and the scan of an Add does not find it.
C34_ScanSkipsTempFiles ==
  /\ [](\A k \in DOMAIN attachments : attachments[k] \notin TempFiles)
  /\ [][(/\ AddCalled
          /\ ~Mapped(attachments, mainItem'.key)
          /\ Found(mainItem'.key) \subseteq TempFiles)
          => (~Mapped(attachments', mainItem'.key) /\ mainPc' = "acquire")]_vars

\* The Add of k1 has scanned a base directory that holds k1's temporary file
\* of a killed run, found nothing and gone on to fetch.
C34_Witness ==
  /\ LeftoverTemp \in DOMAIN files
  /\ added = 1
  /\ mainItem.key = "k1"
  /\ mainPc = "acquire"
  /\ ~Mapped(attachments, "k1")


----------------------------------------------------------------------------
(* Resumption after a kill, under ResumeSpec. *)

\* The snapshot names the key, and no file is at the path it gives.
Dangling(k) ==
  /\ snapshot.exists
  /\ snapshot.ok
  /\ k \in DOMAIN snapshot.entries
  /\ ~FileExists(files, DecodeString(snapshot.entries[k]))

\* The step is the load of the snapshot at the start of a run.
Resumed == mainPc = "start" /\ snapshot.exists /\ mainPc' = "idle"

\* C35: a snapshot saved while downloads are in flight may hold keys whose
\* file does not exist yet; when the process is killed at any point and a new
\* run loads the snapshot, no key of the index is mapped to a path without a
\* file, and a key the snapshot names without a file is not mapped, is not
\* resolved by ScanPathForKey, and an Add for it is not skipped: it goes on
\* to start a goroutine that fetches the key again.
C35_SafeResumption ==
  /\ [][Resumed => \A k \in DOMAIN attachments' : FileExists(files', attachments'[k])]_vars
  /\ [][Resumed => \A k \in Keys : Dangling(k) =>
          /\ ~Mapped(attachments', k)
          /\ ScanPathForKey(attachments', files', BasePath, k).err = "NotFound"]_vars
  /\ [][(AddCalled /\ added = 0 /\ Dangling(mainItem'.key) /\ Len(mainItem'.urls) > 0)
          => (mainPc' = "acquire" /\ ~Mapped(attachments', mainItem'.key))]_vars

\* A run was killed while the goroutine of k2 was writing its temporary file,
\* after a snapshot that names k2; the next run has loaded that snapshot and
\* its first Add, for k2, is about to start a goroutine.
C35_Witness ==
  /\ Dangling("k2")
  /\ TempName(DestPath(BaseDir, "k2", Jpeg), "001") \in DOMAIN files
  /\ workers = EmptyBag
  /\ added = 1
  /\ mainItem.key = "k2"
  /\ mainPc = "acquire"
  /\ ~Mapped(attachments, "k2")


\* C36: Build hands its records to the writer in the order version, team,
\* channel, users, posts, so that on a fresh BulkImportWriter no Add made by
\* Build is rejected for its order, whatever the conversation and the user
\* map: the first Add is the version's, each later Add is of a type that does
\* not come before the previous one's, and none returns the ordering error.
C36_BuildNeverOutOfOrder ==
  /\ [](records = 1 => addRet.type = "version")
  /\ [][records' # records =>
          /\ addRet'.err.kind # "order"
          /\ records > 0 => containerOrderMap(addRet'.type) >= containerOrderMap(addRet.type)]_vars

\* Build has returned nil after the version, the team, the channel, two users
\* and two posts, each accepted and written.
C36_Witness ==
  /\ buildPc = "done"
  /\ buildRet = "nil"
  /\ records = 7
  /\ ~addFailed
  /\ Len(out) = 7
  /\ out[5].type = "user"
  /\ out[7].type = "post"


\* The step is an iteration of AddChatPost's loop for e, an event without
\* text by the user of the last text post.
AttachmentOnlyFollows(e) ==
  /\ buildPc = "posts"
  /\ buildI' = buildI + 1
  /\ ~e.text
  /\ e.atts > 0
  /\ lastTextPost # NoPost
  /\ e.user = lastTextPost.user
  /\ \E write \in WriteOutcomes : BuildEvent(e, write)

\* C37: in AddChatPost, when an event without text follows a text post of the
\* same user, attachments of the event are appended to that Post object,
\* whose Add call has been made and whose line holds what it had then, and
\* are taken off the event's list: no line written before changes, the post
\* of the event, if there is one, holds only the attachments that were not
\* moved, and there is no post for the event when all of them were moved.
C37_MovedAttachmentsAreLost ==
  /\ [](lastTextPost.encoded <= lastTextPost.atts)
  /\ [][\A e \in Events : AttachmentOnlyFollows(e) =>
          LET moved == lastTextPost'.atts - lastTextPost.atts
          IN /\ lastTextPost.atts <= MaxAttachmentsPerPost => moved > 0
             /\ moved <= e.atts
             /\ lastTextPost'.encoded = lastTextPost.encoded
             /\ SubSeq(out', 1, Len(out)) = out
             /\ SubSeq(postAtts', 1, Len(postAtts)) = postAtts
             /\ IF moved = e.atts
                THEN records' = records /\ out' = out /\ postAtts' = postAtts
                ELSE records' = records + 1 /\ postAtts' = Append(postAtts, e.atts - moved)]_vars

\* A text post was written without attachments, an event of its user gave
\* all its attachments to it and made no post, and a later event with more
\* attachments than the post may take was written with the rest.
C37_Witness ==
  /\ buildPc = "posts"
  /\ lastTextPost.written
  /\ lastTextPost.encoded = 0
  /\ lastTextPost.atts = MaxAttachmentsPerPost + 1
  /\ postAtts = <<0, MaxAtts>>
  /\ ~addFailed


----------------------------------------------------------------------------
(* The empty path (MapperSpec). *)

\* C38: the Mapper never records an empty path: in every state a key is mapped
\* exactly when GetPath gives a path for it that is not empty, so a mapped key
\* is never taken for an unmapped one by ScanPathForKey's test of the path.
C38_NoEmptyPath ==
  \A k \in AllKeys : Mapped(attachments, k) <=> GetPath(attachments, k) # NoPath

\* A Mapper without a base path, which only a load can fill, has loaded the
\* document that names the file of an earlier run for k1 and the empty path
\* for k2: k1 is mapped, and k2 is not.
C38_Witness ==
  /\ BasePath = ""
  /\ ret.op = "LoadFromJSON"
  /\ ret.val = "nil"
  /\ DOMAIN attachments = {"k1"}
  /\ attachments["k1"] = DestPath(BaseDir, "k1", NoType)

====
